---------------------------- MODULE Spec2Model ----------------------------
(***************************************************************************)
(* DeepEyeClaw gateway core: cascade executor, budget tracker, semantic    *)
(* cache and the processQuery orchestrator, as state machines.             *)
(*                                                                         *)
(* Units.  Quality scores and thresholds are in tenths (7.5 -> 75).        *)
(* Money is in tenths of a micro-USD, so that the micro-USD rounding of    *)
(* getStatus is a real rounding.  Clock readings (Date.now()) are in       *)
(* ticks, TicksPerDay of them to the day.                                  *)
(***************************************************************************)
EXTENDS Integers, Sequences, FiniteSets, TLC

VARIABLES
    \* ---- executeCascade (smart-router.ts) ----
    chain,              \* params.chain: sequence of CascadeStep
    cs,                 \* the locals of one executeCascade run
    outcomes,           \* what run/evaluate gave for each step tried so far
    \* ---- BudgetTracker (budget-tracker.ts) ----
    costs,              \* this.costs
    config,             \* this.config
    emergencyModeActive,\* this.emergencyModeActive
    alertsFired,        \* this.alertsFired
    fireCalls,          \* the fireAlert calls since alertsFired was last cleared
    now,                \* Date.now()
    recorded,           \* every ActualCost ever handed to recordCost
    lastOp,             \* the last call, when it wrote the latch directly
    clockSteps,         \* number of clock advances so far
    \* ---- SemanticCache and its adapter (cache/semantic.ts) ----
    adapterKind,        \* "memory" (MemoryAdapter) or "redis" (RedisAdapter)
    store,              \* the adapter's entries, in insertion order
    heap,               \* the CacheEntry objects of the process, by identity
    ops,                \* the lookup and store calls, each with its locals
    nops,               \* number of calls started so far
    hits,               \* per entry, the number of hits lookups decided on it
    disturbed,          \* per entry, whether it was deleted or overwritten
    \* ---- AgentManager.processQuery (agent-manager.ts) ----
    reqs,               \* the processQuery calls, each with its locals
    nreqs,              \* number of processQuery calls started so far
    artifacts,          \* ArtifactManager.artifacts, newest first
    nartifacts,         \* artifacts recorded so far: the next uid()
    routed,             \* the decision of the last call of routeQuery
    priced,             \* the last provider response: its tokens and its two costs
    estimate,           \* the CostEstimate of the last call of estimateCost
    chats,              \* a provider adapter: its name, its health, its chat calls
    api,                \* a POST /api/query request: the locals of its handler
    hub                 \* the WebSocket hub: its sockets, its client map, its limiter

cascadeVars == <<chain, cs, outcomes>>
budgetVars  == <<costs, config, emergencyModeActive, alertsFired, fireCalls, recorded, lastOp>>
clockVars   == <<now, clockSteps>>
cacheVars   == <<adapterKind, store, heap, ops, nops, hits, disturbed>>
artifactVars == <<artifacts, nartifacts>>
managerVars == <<reqs, nreqs, artifactVars>>
routerVars == <<routed, priced, estimate>>
providerVars == <<chats>>
apiVars == <<api>>
hubVars == <<hub>>
vars == <<cascadeVars, budgetVars, clockVars, cacheVars, managerVars, routerVars,
          providerVars, apiVars, hubVars>>

\* null, where the other values are natural numbers.
Null == -1

(***************************************************************************)
(* Bounds of the model.                                                    *)
(***************************************************************************)
MaxChain == 3           \* longest cascade chain tried
MaxCosts == 2           \* most recordCost calls in one behaviour
MaxClockSteps == 1      \* most clock advances in one behaviour
TicksPerDay == 2        \* clock readings told apart within one day
MaxOps == 3             \* most cache calls (lookup, store) in one behaviour
MaxTicks == 1           \* most clock ticks while the cache runs
maxEntries == 2         \* config.maxEntries of the cache under test
MaxRequests == 1        \* most processQuery calls in one behaviour
MaxChats == 2           \* most chat calls on one provider adapter
MaxClients == 2         \* most sockets of the hub while its clients act
MaxBeats == 2           \* most heartbeats
MaxAttempts == 12       \* most upgrade requests
MaxHubTime == 3         \* most ticks of the hub clock

(***************************************************************************)
(* Generic helpers.                                                        *)
(***************************************************************************)
Max(a, b) == IF a >= b THEN a ELSE b

Min(a, b) == IF a <= b THEN a ELSE b

\* Math.round(a / b) for a >= 0, b > 0 (round half up).
RoundDiv(a, b) == (a \div b) + (IF 2 * (a % b) >= b THEN 1 ELSE 0)

(***************************************************************************)
(* Cascade executor: executeCascade, smart-router.ts 298-370.              *)
(***************************************************************************)
Qualities  == {0, 50, 75, 100}      \* scores evaluate may give, in tenths
Thresholds == {0, 75, 100}          \* qualityThreshold values, in tenths

Chains == UNION { [1..n -> [qualityThreshold : Thresholds]] : n \in 1..MaxChain }

\* The locals at entry of the loop (lines 309-314).  Steps are numbered
\* from 0 as in the code; chain[i + 1] is the code's params.chain[i].
CascadeStart ==
    [ i            |-> 0,
      bestResponse |-> Null,
      bestQuality  |-> 0,
      bestStep     |-> 0,
      status       |-> "running",   \* running | returned | thrown
      step         |-> -1,          \* result.step
      response     |-> Null,        \* result.response: the step that produced it
      onStep       |-> <<>> ]       \* the onStep calls made, in order

\* A best-so-far that keeps the last response instead of the best one.
BetterThanBest_last(quality, bestQuality) == TRUE

\* The update of best-so-far (line 330).
BetterThanBest(quality, bestQuality) == quality > bestQuality

\* The exit of the loop (lines 357-369).
CascadeExit(c) ==
    IF c.bestResponse = Null
    THEN [c EXCEPT !.status = "thrown"]
    ELSE [c EXCEPT !.status = "returned", !.step = c.bestStep,
                   !.response = c.bestResponse]

\* One iteration whose run resolved and whose response evaluate scored
\* `quality` (lines 320-348), followed by the loop exit when it was the last.
CascadeIterOk(c, ch, quality) ==
    LET step == ch[c.i + 1]
        c1 == [c EXCEPT !.onStep = Append(@, [index |-> c.i, quality |-> quality])]
        c2 == IF BetterThanBest(quality, c1.bestQuality)
              THEN [c1 EXCEPT !.bestResponse = c.i, !.bestQuality = quality,
                              !.bestStep = c.i]
              ELSE c1
    IN  IF quality >= step.qualityThreshold
        THEN [c2 EXCEPT !.status = "returned", !.step = c.i, !.response = c.i]
        ELSE LET c3 == [c2 EXCEPT !.i = c.i + 1]
             IN  IF c3.i < Len(ch) THEN c3 ELSE CascadeExit(c3)

\* A cascade that gives up at the first run that raises.
CascadeIterFail_giveUp(c, ch) == CascadeExit(c)

\* One iteration whose run raised (lines 349-354).
CascadeIterFail(c, ch) ==
    LET c3 == [c EXCEPT !.i = c.i + 1]
    IN  IF c3.i < Len(ch) THEN c3 ELSE CascadeExit(c3)

CascadeRunOk(quality) ==
    /\ cs.status = "running"
    /\ cs' = CascadeIterOk(cs, chain, quality)
    /\ outcomes' = Append(outcomes, [ok |-> TRUE, quality |-> quality, index |-> cs.i])
    /\ UNCHANGED <<chain, budgetVars, clockVars, cacheVars, managerVars, routerVars, providerVars, apiVars, hubVars>>

CascadeRunFail ==
    /\ cs.status = "running"
    /\ cs' = CascadeIterFail(cs, chain)
    /\ outcomes' = Append(outcomes, [ok |-> FALSE, quality |-> 0, index |-> cs.i])
    /\ UNCHANGED <<chain, budgetVars, clockVars, cacheVars, managerVars, routerVars, providerVars, apiVars, hubVars>>

(***************************************************************************)
(* Budget tracker: budget-tracker.ts (src/unnamed/part_005).               *)
(***************************************************************************)
DaysPerWeek == 7
PruneDays   == 90

\* First day of each month of 1970, counted from 1 January 1970 (day 0),
\* and of January 1971.
MonthStarts == <<0, 31, 59, 90, 120, 151, 181, 212, 243, 273, 304, 334, 365>>

DayOf(t) == t \div TicksPerDay

\* Date.getDay(): 0 is Sunday; 1 January 1970 was a Thursday.
GetDay(day) == (day + 4) % DaysPerWeek

MonthIndex(day) ==
    CHOOSE m \in 1..12 : MonthStarts[m] <= day /\ day < MonthStarts[m + 1]

\* getPeriodBounds (lines 37-61), for a clock without daylight saving.
getPeriodBounds(period, t) ==
    LET day == DayOf(t) IN
    CASE period = "daily" ->
           [start |-> day * TicksPerDay, end |-> day * TicksPerDay + TicksPerDay]
      [] period = "weekly" ->
           LET monday == day - ((GetDay(day) + 6) % DaysPerWeek)
           IN  [start |-> monday * TicksPerDay,
                end   |-> monday * TicksPerDay + DaysPerWeek * TicksPerDay]
      [] period = "monthly" ->
           [start |-> MonthStarts[MonthIndex(day)] * TicksPerDay,
            end   |-> MonthStarts[MonthIndex(day) + 1] * TicksPerDay]

\* getLimit (lines 63-69).
getLimit(cfg, period) ==
    CASE period = "daily"   -> cfg.dailyLimit
      [] period = "weekly"  -> cfg.weeklyLimit
      [] period = "monthly" -> cfg.monthlyLimit

Periods == {"daily", "weekly", "monthly"}

\* The filter of getStatus (line 95).
InPeriod(c, b) == c.timestamp >= b.start /\ c.timestamp < b.end

RECURSIVE SpentIn(_, _)
SpentIn(cl, b) ==
    IF cl = <<>> THEN 0
    ELSE (IF InPeriod(Head(cl), b) THEN Head(cl).totalCost ELSE 0) + SpentIn(Tail(cl), b)

\* Math.round(x * 1000000) / 1000000 on an amount in tenths of a micro-USD.
RoundMicro(x) == 10 * RoundDiv(x, 10)

\* getStatus (lines 90-110) on a cost list, a configuration and a clock
\* reading; percentUsed is in hundredths of a percent.
StatusOf(cl, cfg, period, t) ==
    LET b == getPeriodBounds(period, t)
        limit == getLimit(cfg, period)
        spent == SpentIn(cl, b)
        remaining == Max(0, limit - spent)
    IN  [ period      |-> period,
          limit       |-> limit,
          spent       |-> RoundMicro(spent),
          remaining   |-> RoundMicro(remaining),
          percentUsed |-> IF limit > 0 THEN RoundDiv(spent * 10000, limit) ELSE 0,
          periodStart |-> b.start,
          periodEnd   |-> b.end ]

getStatus(period) == StatusOf(costs, config, period, now)

\* alertKey (line 203).
AlertKey(th) == <<th.percentage, th.action>>

\* A fireAlert that assigns the latch on every action.
FireAlert_assign(action, cfg, latch) ==
    action = "emergency_mode" /\ cfg.emergencyMode.enabled

\* fireAlert (lines 211-234): the latch after the action of one threshold.
FireAlert(action, cfg, latch) ==
    IF action = "emergency_mode" /\ cfg.emergencyMode.enabled THEN TRUE ELSE latch

\* A checkAlerts that does not look at the fired set.
ShouldFire_again(daily, th, fired) == daily.percentUsed >= th.percentage * 100

\* Whether checkAlerts fires a threshold (line 204).
ShouldFire(daily, th, fired) ==
    daily.percentUsed >= th.percentage * 100 /\ AlertKey(th) \notin fired

\* checkAlerts (lines 199-209): the loop over the thresholds from index k on.
RECURSIVE CheckAlertsFrom(_, _, _, _, _)
CheckAlertsFrom(k, ths, daily, cfg, st) ==
    IF k > Len(ths) THEN st
    ELSE LET th == ths[k] IN
         IF ShouldFire(daily, th, st.fired)
         THEN CheckAlertsFrom(k + 1, ths, daily, cfg,
                [fired |-> st.fired \cup {AlertKey(th)},
                 latch |-> FireAlert(th.action, cfg, st.latch),
                 calls |-> Append(st.calls, k)])
         ELSE CheckAlertsFrom(k + 1, ths, daily, cfg, st)

checkAlerts(cl, cfg, fired, latch, t) ==
    CheckAlertsFrom(1, cfg.alertThresholds, StatusOf(cl, cfg, "daily", t), cfg,
                    [fired |-> fired, latch |-> latch, calls |-> <<>>])

\* DEFAULT_BUDGET_CONFIG (lines 18-33) with the limits of the model.
DefaultThresholds ==
    << [percentage |-> 50, action |-> "log"],
       [percentage |-> 80, action |-> "notify"],
       [percentage |-> 95, action |-> "emergency_mode"] >>

InitialConfigs ==
    { [ dailyLimit      |-> 20000,
        weeklyLimit     |-> 120000,
        monthlyLimit    |-> 400000,
        alertThresholds |-> DefaultThresholds,
        emergencyMode   |-> [enabled |-> en, disableProviders |-> {"anthropic"}] ]
      : en \in BOOLEAN }

\* Partial configurations handed to updateConfig.
ConfigUpdates ==
    { [dailyLimit |-> 40000],
      [emergencyMode |-> [enabled |-> FALSE, disableProviders |-> {"anthropic"}]],
      [emergencyMode |-> [enabled |-> TRUE, disableProviders |-> {"anthropic"}]] }

\* { ...this.config, ...config } (line 185).
MergeConfig(base, upd) ==
    [k \in DOMAIN base |-> IF k \in DOMAIN upd THEN upd[k] ELSE base[k]]

CostValues == {4, 9996, 18999}

\* lastOp after a call that is neither setEmergencyMode nor resetAlerts.
OtherOp == [op |-> "other", arg |-> FALSE]

\* recordCost (lines 84-87).
RecordCost(cost) ==
    LET cl == Append(costs, cost)
        st == checkAlerts(cl, config, alertsFired, emergencyModeActive, now)
    IN  /\ costs' = cl
        /\ alertsFired' = st.fired
        /\ fireCalls' = fireCalls \o st.calls
        /\ emergencyModeActive' = st.latch
        /\ recorded' = Append(recorded, cost)

BudgetRecordCost(amount) ==
    /\ Len(recorded) < MaxCosts
    /\ RecordCost([totalCost |-> amount, timestamp |-> now])
    /\ lastOp' = OtherOp
    /\ UNCHANGED <<config, cascadeVars, clockVars, cacheVars, managerVars, routerVars, providerVars, apiVars, hubVars>>

\* setEmergencyMode (lines 130-132).
BudgetSetEmergencyMode(active) ==
    /\ emergencyModeActive' = active
    /\ lastOp' = [op |-> "setEmergencyMode", arg |-> active]
    /\ UNCHANGED <<costs, config, alertsFired, fireCalls, recorded, cascadeVars, clockVars, cacheVars, managerVars, routerVars, providerVars, apiVars, hubVars>>

\* A prune that keeps the last seven days only.
PruneCutoff_week(t) == t - DaysPerWeek * TicksPerDay

\* The cutoff of prune (line 193).
PruneCutoff(t) == t - PruneDays * TicksPerDay

\* updateConfig (lines 184-189).
BudgetUpdateConfig(upd) ==
    LET cfg == MergeConfig(config, upd)
        st  == checkAlerts(costs, cfg, {}, emergencyModeActive, now)
    IN  /\ cfg # config
        /\ config' = cfg
        /\ alertsFired' = st.fired
        /\ fireCalls' = st.calls
        /\ emergencyModeActive' = st.latch
        /\ lastOp' = OtherOp
        /\ UNCHANGED <<costs, recorded, cascadeVars, clockVars, cacheVars, managerVars, routerVars, providerVars, apiVars, hubVars>>

\* The filter of prune (line 194).
RECURSIVE PruneCosts(_, _)
PruneCosts(cl, cutoff) ==
    IF cl = <<>> THEN <<>>
    ELSE IF Head(cl).timestamp >= cutoff
         THEN <<Head(cl)>> \o PruneCosts(Tail(cl), cutoff)
         ELSE PruneCosts(Tail(cl), cutoff)

\* prune (lines 192-195).
BudgetPrune ==
    /\ costs' = PruneCosts(costs, PruneCutoff(now))
    /\ lastOp' = OtherOp
    /\ UNCHANGED <<config, alertsFired, fireCalls, emergencyModeActive, recorded,
                   cascadeVars, clockVars, cacheVars, managerVars, routerVars, providerVars, apiVars, hubVars>>

\* getStatus called from outside: reads only.
BudgetGetStatus(period) ==
    /\ getStatus(period).spent >= 0
    /\ lastOp' = OtherOp
    /\ UNCHANGED <<costs, config, alertsFired, fireCalls, emergencyModeActive, recorded,
                   cascadeVars, clockVars, cacheVars, managerVars, routerVars, providerVars, apiVars, hubVars>>

\* resetAlerts (lines 237-240).
BudgetResetAlerts ==
    /\ alertsFired' = {}
    /\ fireCalls' = <<>>
    /\ emergencyModeActive' = FALSE
    /\ lastOp' = [op |-> "resetAlerts", arg |-> FALSE]
    /\ UNCHANGED <<costs, config, recorded, cascadeVars, clockVars, cacheVars, managerVars, routerVars, providerVars, apiVars, hubVars>>

\* The clock advances: by a tick, by a day, to just over a week, to just
\* over 90 days.
ClockDeltas ==
    {1, TicksPerDay, DaysPerWeek * TicksPerDay + 1, PruneDays * TicksPerDay + 1}

ClockAdvance(d) ==
    /\ clockSteps < MaxClockSteps
    /\ now' = now + d
    /\ clockSteps' = clockSteps + 1
    /\ lastOp' = OtherOp
    /\ UNCHANGED <<costs, config, alertsFired, fireCalls, emergencyModeActive, recorded,
                   cascadeVars, cacheVars, managerVars, routerVars, providerVars, apiVars, hubVars>>

(***************************************************************************)
(* Semantic cache: cache/semantic.ts, hashString of utils/helpers.ts       *)
(* (src/unnamed/part_009) and the adapters (gateway/server.ts 215-335).    *)
(*                                                                         *)
(* A text is a sequence of characters.  The clock of the cache ticks in    *)
(* seconds.  Every await is a step boundary: an action is the code that    *)
(* runs from one await to the next.  A MemoryAdapter call reads or writes  *)
(* the Map when it is made; a RedisAdapter call reads or writes the server *)
(* at the step that ends the await.                                        *)
(***************************************************************************)
QueryA == <<" ", "A", "b", " ", "c", "d">>
QueryB == <<"a", "b", " ", "c", "d", ".">>
QueryD == <<"e", "f">>

Queries == {QueryA, QueryB, QueryD}

\* Time-to-live values handed to store, in ticks.
Ttls == {1, MaxTicks + 1}

IsSpace(ch) == ch = " "

\* \w of the regular expression in tokenize.
IsWord(ch) == ch \in {"A", "a", "b", "c", "d", "e", "f"}

LowerChar(ch) ==
    IF ch = "A" THEN "a" ELSE ch

\* String.prototype.toLowerCase.
toLowerCase(s) == [i \in 1..Len(s) |-> LowerChar(s[i])]

RECURSIVE TrimStart(_)
TrimStart(s) ==
    IF s # <<>> /\ IsSpace(Head(s)) THEN TrimStart(Tail(s)) ELSE s

RECURSIVE TrimEnd(_)
TrimEnd(s) ==
    IF s # <<>> /\ IsSpace(s[Len(s)]) THEN TrimEnd(SubSeq(s, 1, Len(s) - 1)) ELSE s

\* String.prototype.trim.
trim(s) == TrimEnd(TrimStart(s))

\* hashString (part_009 44-52).  The truncated SHA-256 digest is taken to
\* be injective: the key is the text the digest is computed from.
hashString(input) == toLowerCase(trim(input))

\* text.replace(/[^\w\s]/g, " ") (semantic.ts 29).
StripNonWord(s) ==
    [i \in 1..Len(s) |-> IF IsWord(s[i]) \/ IsSpace(s[i]) THEN s[i] ELSE " "]

\* split(/\s+/) (semantic.ts 30): the pieces between runs of whitespace,
\* `cur` being the piece under construction.
RECURSIVE SplitSpaces(_, _)
SplitSpaces(s, cur) ==
    IF s = <<>> THEN <<cur>>
    ELSE IF IsSpace(Head(s))
         THEN IF Len(s) > 1 /\ IsSpace(s[2])
              THEN SplitSpaces(Tail(s), cur)
              ELSE <<cur>> \o SplitSpaces(Tail(s), <<>>)
         ELSE SplitSpaces(Tail(s), Append(cur, Head(s)))

RECURSIVE LongTokens(_)
LongTokens(toks) ==
    IF toks = <<>> THEN <<>>
    ELSE IF Len(Head(toks)) > 1 THEN <<Head(toks)>> \o LongTokens(Tail(toks))
         ELSE LongTokens(Tail(toks))

\* tokenize (semantic.ts 26-32).
tokenize(text) == LongTokens(SplitSpaces(StripNonWord(toLowerCase(text)), <<>>))

\* buildVocab (semantic.ts 34-45): the tokens that get an index.
buildVocab(docs) ==
    UNION { { tokenize(d)[i] : i \in 1..Len(tokenize(d)) } : d \in docs }

\* toVector (semantic.ts 47-56), indexed by token.
toVector(text, vocab) ==
    LET toks == tokenize(text)
    IN  [tok \in vocab |-> Cardinality({ i \in 1..Len(toks) : toks[i] = tok })]

RECURSIVE DotOver(_, _, _)
DotOver(S, a, b) ==
    IF S = {} THEN 0
    ELSE LET t == CHOOSE x \in S : TRUE
         IN  a[t] * b[t] + DotOver(S \ {t}, a, b)

\* A similarity s is kept as the fraction of its square: s * s = num / den.
SimZero == [num |-> 0, den |-> 1]

SimOne == [num |-> 1, den |-> 1]

\* cosineSimilarity (semantic.ts 58-72).
cosineSimilarity(a, b) ==
    LET dot  == DotOver(DOMAIN a, a, b)
        magA == DotOver(DOMAIN a, a, a)
        magB == DotOver(DOMAIN b, b, b)
    IN  IF DOMAIN a # DOMAIN b \/ DOMAIN a = {} THEN SimZero
        ELSE IF magA * magB = 0 THEN SimZero
        ELSE [num |-> dot * dot, den |-> magA * magB]

SimGreater(s1, s2) == s1.num * s2.den > s2.num * s1.den

\* s >= pct / 100.
SimAtLeast(s, pct) == s.num * 10000 >= pct * pct * s.den

\* DEFAULT_CONFIG.similarityThreshold (semantic.ts 96), in hundredths.
similarityThreshold == 82

\* No entry: the null of adapter.get, and the value of an unused slot.
NoEntry ==
    [ queryHash |-> <<>>, queryText |-> <<>>, createdAt |-> 0, expiresAt |-> 0,
      hitCount |-> 0, eid |-> 0 ]

\* A handle on an entry: the object itself (MemoryAdapter: `eid` names the
\* object, whose fields are in heap) or a parsed copy (RedisAdapter: val).
NoHandle == [eid |-> 0, val |-> NoEntry]

IsMemory == adapterKind = "memory"

\* The fields of the entry behind a handle, as they are now.
Data(h) == IF IsMemory THEN heap[h.eid] ELSE h.val

\* An expiry test that takes the entry expiring right now for live.
IsLive_inclusive(e, t) == e.expiresAt >= t

\* An expiry test that is one tick too strict.
IsLive_strict(e, t) == e.expiresAt > t + 1

\* The expiry test of lookup (semantic.ts 132 and 143).
IsLive(e, t) == e.expiresAt > t

CellIndex(st, key) ==
    IF \E i \in 1..Len(st) : st[i].key = key
    THEN CHOOSE i \in 1..Len(st) : st[i].key = key
    ELSE 0

\* adapter.get (server.ts 240-248, 312-314).
AdapterGet(st, key) ==
    IF CellIndex(st, key) = 0 THEN NoHandle
    ELSE [eid |-> st[CellIndex(st, key)].eid, val |-> st[CellIndex(st, key)].val]

\* adapter.entries (server.ts 273-293, 332-334).
AdapterEntries(st) == [i \in 1..Len(st) |-> [eid |-> st[i].eid, val |-> st[i].val]]

\* The seconds a key lives in Redis (server.ts 251-252), for an entry set
\* when the clock read t; a tick is one second.
TtlSec(e, t) == Max(1, e.expiresAt - t)

\* adapter.set (server.ts 250-254, 316-318): a Map keeps the place of a key
\* it already holds and appends a new one.
AdapterSet(st, key, h, deadline) ==
    LET cell == [key |-> key, eid |-> h.eid,
                 val |-> IF IsMemory THEN NoEntry ELSE h.val,
                 deadline |-> IF IsMemory THEN 0 ELSE deadline]
    IN  IF CellIndex(st, key) = 0 THEN Append(st, cell)
        ELSE [st EXCEPT ![CellIndex(st, key)] = cell]

\* adapter.delete (server.ts 256-259, 320-322).
AdapterDelete(st, key) ==
    IF CellIndex(st, key) = 0 THEN st
    ELSE SubSeq(st, 1, CellIndex(st, key) - 1)
            \o SubSeq(st, CellIndex(st, key) + 1, Len(st))

\* The entries dropped or replaced by a write that turns st into st2.
Displaced(st, st2) ==
    { st[i].eid : i \in { j \in 1..Len(st) :
        \A k \in 1..Len(st2) : st2[k].key # st[j].key \/ st2[k].eid # st[j].eid } }

MarkDisturbed(st, st2) ==
    [e \in DOMAIN disturbed |-> disturbed[e] \/ e \in Displaced(st, st2)]

\* The locals of a call that has not started.
IdleOp ==
    [ kind |-> "none", pc |-> "idle", query |-> <<>>, hash |-> <<>>, ttl |-> 0,
      h |-> NoHandle, snap |-> <<>>, lnow |-> 0, ttlSec |-> 0, size |-> 0,
      hit |-> FALSE, similarity |-> SimZero, entry |-> NoEntry,
      sameText |-> NoEntry, liveAtCheck |-> FALSE,
      before |-> {}, keys |-> {}, idx |-> 0 ]

\* The locals of a call that has returned are gone.
DoneOp(o) == [IdleOp EXCEPT !.kind = "returned", !.pc = "done"]

\* The entry stored for exactly this text, or NoEntry.
EntryForText(st, text) ==
    IF \E i \in 1..Len(st) : Data(AdapterEntries(st)[i]).queryText = text
    THEN Data(AdapterEntries(st)[CHOOSE i \in 1..Len(st) :
                 Data(AdapterEntries(st)[i]).queryText = text])
    ELSE NoEntry

\* The names of the calls: one more than SpecCache starts, for the
\* behaviours of a cache used with one text only.
OpIds == 1..(MaxOps + 1)

\* lookup is called (semantic.ts 127-131): the hash, then adapter.get;
\* `limit` bounds the calls of the behaviour.
LookupBegin(query, limit) ==
    /\ nops < limit
    /\ nops' = nops + 1
    /\ ops' = [ops EXCEPT ![nops + 1] =
          [IdleOp EXCEPT !.kind = "lookup", !.pc = "got", !.query = query,
                         !.hash = hashString(query),
                         !.h = AdapterGet(store, hashString(query)),
                         !.sameText = EntryForText(store, query)]]
    /\ UNCHANGED <<adapterKind, store, heap, hits, disturbed,
                   cascadeVars, budgetVars, clockVars, managerVars, routerVars, providerVars, apiVars, hubVars>>

LookupStart(query) == LookupBegin(query, MaxOps)

\* `e.hitCount++` on the entry behind a handle (semantic.ts 133, 169).
BumpHandle(h) ==
    IF IsMemory THEN h ELSE [h EXCEPT !.val.hitCount = @ + 1]

BumpHeap(h) ==
    IF IsMemory THEN [heap EXCEPT ![h.eid].hitCount = @ + 1] ELSE heap

\* A hit was decided on handle h under `key`: the entry is bumped and
\* adapter.set is called (semantic.ts 133-134, 169-170).
DecideHit(p, h, key, sim, nextPc, livePresent) ==
    /\ heap' = BumpHeap(h)
    /\ store' = IF IsMemory THEN AdapterSet(store, key, h, 0) ELSE store
    /\ disturbed' = IF IsMemory THEN MarkDisturbed(store, AdapterSet(store, key, h, 0))
                    ELSE disturbed
    /\ hits' = [hits EXCEPT ![h.eid] = @ + 1]
    /\ ops' = [ops EXCEPT ![p] =
          [@ EXCEPT !.pc = nextPc, !.h = BumpHandle(h), !.lnow = now,
                    !.ttlSec = TtlSec(Data(h), now),
                    !.hit = TRUE, !.similarity = sim,
                    !.entry = [Data(h) EXCEPT !.hitCount = @ + 1],
                    !.liveAtCheck = livePresent]]

\* adapter.get has answered (semantic.ts 132-141): an exact hit, or else
\* adapter.entries is called.
LookupCheck(p) ==
    LET o == ops[p]
        livePresent == o.sameText.eid # 0 /\ o.sameText.expiresAt > now
    IN  /\ o.kind = "lookup" /\ o.pc = "got"
        /\ IF o.h.eid # 0 /\ IsLive(Data(o.h), now)
           THEN DecideHit(p, o.h, o.hash, SimOne, "exactSet", livePresent)
           ELSE /\ ops' = [ops EXCEPT ![p] =
                      [@ EXCEPT !.pc = "scan", !.snap = AdapterEntries(store),
                                !.lnow = now, !.liveAtCheck = livePresent]]
                /\ UNCHANGED <<store, heap, hits, disturbed>>
        /\ UNCHANGED <<adapterKind, nops, cascadeVars, budgetVars, clockVars, managerVars, routerVars, providerVars, apiVars, hubVars>>

\* The RedisAdapter write that ends the await of adapter.set, with the time
\* to live computed when set was called.
RedisWrite(st, key, h, ttlSec) ==
    IF IsMemory THEN st ELSE AdapterSet(st, key, h, now + ttlSec)

\* adapter.set has answered (semantic.ts 135-137, 171-176): lookup returns.
LookupReturnHit(p) ==
    LET o == ops[p]
        st2 == RedisWrite(store, o.h.val.queryHash, o.h, o.ttlSec)
    IN  /\ o.kind = "lookup" /\ o.pc \in {"exactSet", "semSet"}
        /\ store' = IF o.pc = "exactSet"
                    THEN RedisWrite(store, o.hash, o.h, o.ttlSec)
                    ELSE st2
        /\ disturbed' = MarkDisturbed(store, store')
        /\ ops' = [ops EXCEPT ![p] = DoneOp(@)]
        /\ UNCHANGED <<adapterKind, heap, nops, hits,
                       cascadeVars, budgetVars, clockVars, managerVars, routerVars, providerVars, apiVars, hubVars>>

\* The handles of a snapshot whose entry is live at t (semantic.ts 143).
RECURSIVE ActiveOf(_, _)
ActiveOf(snap, t) ==
    IF snap = <<>> THEN <<>>
    ELSE IF IsLive(Data(Head(snap)), t) THEN <<Head(snap)>> \o ActiveOf(Tail(snap), t)
         ELSE ActiveOf(Tail(snap), t)

\* The loop of lookup (semantic.ts 156-166) from index k on: the best entry
\* so far and its similarity.
RECURSIVE BestFrom(_, _, _, _, _)
BestFrom(k, active, query, vocab, best) ==
    IF k > Len(active) THEN best
    ELSE LET sim == cosineSimilarity(toVector(query, vocab),
                        toVector(Data(active[k]).queryText, vocab))
         IN  IF SimGreater(sim, best.sim)
             THEN BestFrom(k + 1, active, query, vocab, [h |-> active[k], sim |-> sim])
             ELSE BestFrom(k + 1, active, query, vocab, best)

\* adapter.entries has answered (semantic.ts 142-180): the semantic scan.
LookupScan(p) ==
    LET o == ops[p]
        active == ActiveOf(o.snap, now)
        vocab == buildVocab({ Data(active[i]).queryText : i \in 1..Len(active) }
                              \cup {o.query})
        best == BestFrom(1, active, o.query, vocab, [h |-> NoHandle, sim |-> SimZero])
    IN  /\ o.kind = "lookup" /\ o.pc = "scan"
        /\ IF active # <<>> /\ best.h.eid # 0
                /\ SimAtLeast(best.sim, similarityThreshold)
           THEN DecideHit(p, best.h, Data(best.h).queryHash, best.sim, "semSet",
                          o.liveAtCheck)
           ELSE /\ ops' = [ops EXCEPT ![p] = DoneOp(@)]
                /\ UNCHANGED <<store, heap, hits, disturbed>>
        /\ UNCHANGED <<adapterKind, nops, cascadeVars, budgetVars, clockVars, managerVars, routerVars, providerVars, apiVars, hubVars>>

\* store is called (semantic.ts 186-191): the hash, then adapter.size.
StoreBegin(query, ttl, limit) ==
    /\ nops < limit
    /\ nops' = nops + 1
    /\ ops' = [ops EXCEPT ![nops + 1] =
          [IdleOp EXCEPT !.kind = "store", !.pc = "sized", !.query = query,
                         !.hash = hashString(query), !.ttl = ttl,
                         !.size = Len(store)]]
    /\ UNCHANGED <<adapterKind, store, heap, hits, disturbed,
                   cascadeVars, budgetVars, clockVars, managerVars, routerVars, providerVars, apiVars, hubVars>>

StoreStart(query, ttl) == StoreBegin(query, ttl, MaxOps)

\* Whether store evicts before it writes (semantic.ts 192).
AtCapacity(size) == size >= maxEntries

\* The entry store builds (semantic.ts 196-207); a call makes one object,
\* named by the number of the call.
NewEntry(p, o) ==
    [ queryHash |-> o.hash, queryText |-> o.query, createdAt |-> now,
      expiresAt |-> now + o.ttl, hitCount |-> 0, eid |-> p ]

\* store builds its entry and calls adapter.set (semantic.ts 196-209).
BuildAndSet(p, st) ==
    LET e == NewEntry(p, ops[p])
        h == [eid |-> p, val |-> IF IsMemory THEN NoEntry ELSE e]
    IN  /\ heap' = IF IsMemory THEN [heap EXCEPT ![p] = e] ELSE heap
        /\ store' = IF IsMemory THEN AdapterSet(st, e.queryHash, h, 0) ELSE st
        /\ disturbed' = MarkDisturbed(store, store')
        /\ ops' = [ops EXCEPT ![p] =
              [@ EXCEPT !.pc = "setting", !.h = h, !.entry = e,
                        !.ttlSec = TtlSec(e, now)]]

\* adapter.size has answered (semantic.ts 191-209): evictOldest is entered
\* and calls adapter.entries, or the entry is built and set.
StoreAfterSize(p) ==
    LET o == ops[p]
    IN  /\ o.kind = "store" /\ o.pc = "sized"
        /\ IF AtCapacity(o.size)
           THEN /\ ops' = [ops EXCEPT ![p] =
                      [@ EXCEPT !.pc = "evicting", !.snap = AdapterEntries(store)]]
                /\ UNCHANGED <<store, heap, disturbed>>
           ELSE BuildAndSet(p, store)
        /\ UNCHANGED <<adapterKind, nops, hits, cascadeVars, budgetVars, clockVars, managerVars, routerVars, providerVars, apiVars, hubVars>>

\* The order of evictOldest (semantic.ts 242): fewer hits first, then older.
EvictBefore(a, b) ==
    \/ a.hitCount < b.hitCount
    \/ a.hitCount = b.hitCount /\ a.createdAt < b.createdAt

\* all.sort(...)[0] (semantic.ts 242-243): the sort is stable, so among
\* equals the first of the snapshot wins.
Victim(snap) ==
    LET idx == CHOOSE i \in 1..Len(snap) :
                  /\ \A j \in 1..Len(snap) : ~EvictBefore(Data(snap[j]), Data(snap[i]))
                  /\ \A j \in 1..(i - 1) : EvictBefore(Data(snap[i]), Data(snap[j]))
                                            \/ EvictBefore(Data(snap[j]), Data(snap[i]))
    IN  snap[idx]

\* adapter.entries has answered inside evictOldest (semantic.ts 236-244):
\* nothing to evict, or adapter.delete is called on the victim.
StoreEvict(p) ==
    LET o == ops[p]
    IN  /\ o.kind = "store" /\ o.pc = "evicting"
        /\ IF o.snap = <<>>
           THEN BuildAndSet(p, store)
           ELSE /\ ops' = [ops EXCEPT ![p] =
                      [@ EXCEPT !.pc = "deleting", !.h = Victim(o.snap)]]
                /\ store' = IF IsMemory
                            THEN AdapterDelete(store, Data(Victim(o.snap)).queryHash)
                            ELSE store
                /\ disturbed' = MarkDisturbed(store, store')
                /\ UNCHANGED heap
        /\ UNCHANGED <<adapterKind, nops, hits, cascadeVars, budgetVars, clockVars, managerVars, routerVars, providerVars, apiVars, hubVars>>

\* adapter.delete has answered (semantic.ts 244-246, 196-209): the entry is
\* built and set.
StoreDeleted(p) ==
    LET o == ops[p]
        st == IF IsMemory THEN store ELSE AdapterDelete(store, o.h.val.queryHash)
    IN  /\ o.kind = "store" /\ o.pc = "deleting"
        /\ BuildAndSet(p, st)
        /\ UNCHANGED <<adapterKind, nops, hits, cascadeVars, budgetVars, clockVars, managerVars, routerVars, providerVars, apiVars, hubVars>>

\* adapter.set has answered (semantic.ts 209-212): store returns.
StoreReturn(p) ==
    LET o == ops[p]
    IN  /\ o.kind = "store" /\ o.pc = "setting"
        /\ store' = RedisWrite(store, o.hash, o.h, o.ttlSec)
        /\ disturbed' = MarkDisturbed(store, store')
        /\ ops' = [ops EXCEPT ![p] = DoneOp(@)]
        /\ UNCHANGED <<adapterKind, heap, nops, hits,
                       cascadeVars, budgetVars, clockVars, managerVars, routerVars, providerVars, apiVars, hubVars>>

\* The entries stored so far: those of the store calls that have returned
\* and those the adapter holds.
StoredSoFar ==
    { p \in 1..nops : ops[p].kind = "returned" } \cup { store[i].eid : i \in 1..Len(store) }

\* The keys the adapter holds (server.ts 261, KEYS prefix*).
KeysOf(st) == { st[i].key : i \in 1..Len(st) }

\* DEL of a set of keys (server.ts 263).
RECURSIVE DeleteKeys(_, _)
DeleteKeys(st, ks) ==
    IF ks = {} THEN st
    ELSE LET k == CHOOSE x \in ks : TRUE
         IN  DeleteKeys(AdapterDelete(st, k), ks \ {k})

\* A clear that has returned keeps the entries that were stored before it
\* began.
ClearedOp(o) == [IdleOp EXCEPT !.kind = "cleared", !.pc = "done", !.before = o.before]

\* clear is called (semantic.ts 254-255): adapter.clear empties the Map
\* (server.ts 324-326) or asks Redis for the keys (server.ts 260-261).
ClearBegin(limit) ==
    /\ nops < limit
    /\ nops' = nops + 1
    /\ ops' = [ops EXCEPT ![nops + 1] =
          [IdleOp EXCEPT !.kind = "clear", !.pc = IF IsMemory THEN "clearing" ELSE "keys",
                         !.before = StoredSoFar]]
    /\ store' = IF IsMemory THEN <<>> ELSE store
    /\ disturbed' = MarkDisturbed(store, store')
    /\ UNCHANGED <<adapterKind, hits, cascadeVars, budgetVars, clockVars, managerVars, routerVars, providerVars, apiVars, hubVars>>
    /\ UNCHANGED heap

ClearStart == ClearBegin(MaxOps)

\* KEYS has answered (server.ts 261-264): DEL is sent when there are keys.
ClearKeys(p) ==
    LET o == ops[p]
    IN  /\ o.kind = "clear" /\ o.pc = "keys"
        /\ ops' = [ops EXCEPT ![p] =
              IF KeysOf(store) = {} THEN [o EXCEPT !.pc = "clearing"]
              ELSE [o EXCEPT !.pc = "del", !.keys = KeysOf(store)]]
        /\ UNCHANGED <<store, heap, disturbed>>
        /\ UNCHANGED <<adapterKind, nops, hits, cascadeVars, budgetVars, clockVars, managerVars, routerVars, providerVars, apiVars, hubVars>>

\* DEL has answered (server.ts 263): the keys it was sent are gone.
ClearDel(p) ==
    LET o == ops[p]
    IN  /\ o.kind = "clear" /\ o.pc = "del"
        /\ store' = DeleteKeys(store, o.keys)
        /\ disturbed' = MarkDisturbed(store, store')
        /\ ops' = [ops EXCEPT ![p] = [o EXCEPT !.pc = "clearing", !.keys = {}]]
        /\ UNCHANGED heap
        /\ UNCHANGED <<adapterKind, nops, hits, cascadeVars, budgetVars, clockVars, managerVars, routerVars, providerVars, apiVars, hubVars>>

\* adapter.clear has answered (semantic.ts 255-265): the statistics are
\* reset and clear returns.
ClearReturn(p) ==
    LET o == ops[p]
    IN  /\ o.kind = "clear" /\ o.pc = "clearing"
        /\ ops' = [ops EXCEPT ![p] = ClearedOp(o)]
        /\ UNCHANGED <<store, heap, disturbed>>
        /\ UNCHANGED <<adapterKind, nops, hits, cascadeVars, budgetVars, clockVars, managerVars, routerVars, providerVars, apiVars, hubVars>>

\* pruneExpired is called (semantic.ts 215): adapter.entries.
PruneBegin(limit) ==
    /\ nops < limit
    /\ nops' = nops + 1
    /\ ops' = [ops EXCEPT ![nops + 1] =
          [IdleOp EXCEPT !.kind = "prune", !.pc = "listing",
                         !.snap = AdapterEntries(store)]]
    /\ UNCHANGED <<store, heap, disturbed>>
    /\ UNCHANGED <<adapterKind, hits, cascadeVars, budgetVars, clockVars, managerVars, routerVars, providerVars, apiVars, hubVars>>

PruneStart == PruneBegin(MaxOps)

\* The test of pruneExpired (semantic.ts 220).
IsExpired(e, t) == e.expiresAt <= t

\* The first place from k on of a snapshot whose entry the loop deletes
\* (semantic.ts 219-220), 0 when there is none.
NextExpired(snap, k, t) ==
    IF \E j \in k..Len(snap) : IsExpired(Data(snap[j]), t)
    THEN CHOOSE j \in k..Len(snap) :
            /\ IsExpired(Data(snap[j]), t)
            /\ \A i \in k..(j - 1) : ~IsExpired(Data(snap[i]), t)
    ELSE 0

\* The loop of pruneExpired from place k of its snapshot, over adapter
\* content st (semantic.ts 219-226): adapter.delete is called on the next
\* expired entry, or adapter.size when the loop is over.
PruneLoop(p, o, k, st) ==
    LET j == NextExpired(o.snap, k, o.lnow)
    IN  /\ ops' = [ops EXCEPT ![p] =
              IF j = 0 THEN [o EXCEPT !.pc = "sizing", !.idx = 0]
              ELSE [o EXCEPT !.pc = "deleting", !.idx = j]]
        /\ store' = IF j # 0 /\ IsMemory
                    THEN AdapterDelete(st, Data(o.snap[j]).queryHash)
                    ELSE st
        /\ disturbed' = MarkDisturbed(store, store')
        /\ UNCHANGED heap

\* adapter.entries has answered (semantic.ts 215-221): the clock is read
\* and the loop begins.
PruneListed(p) ==
    LET o == ops[p]
    IN  /\ o.kind = "prune" /\ o.pc = "listing"
        /\ PruneLoop(p, [o EXCEPT !.lnow = now], 1, store)
        /\ UNCHANGED <<adapterKind, nops, hits, cascadeVars, budgetVars, clockVars, managerVars, routerVars, providerVars, apiVars, hubVars>>

\* adapter.delete has answered (semantic.ts 221-226): the loop goes on.
PruneDeleted(p) ==
    LET o == ops[p]
        st == IF IsMemory THEN store
              ELSE AdapterDelete(store, Data(o.snap[o.idx]).queryHash)
    IN  /\ o.kind = "prune" /\ o.pc = "deleting"
        /\ PruneLoop(p, o, o.idx + 1, st)
        /\ UNCHANGED <<adapterKind, nops, hits, cascadeVars, budgetVars, clockVars, managerVars, routerVars, providerVars, apiVars, hubVars>>

\* adapter.size has answered (semantic.ts 226-231): pruneExpired returns.
PruneSized(p) ==
    LET o == ops[p]
    IN  /\ o.kind = "prune" /\ o.pc = "sizing"
        /\ ops' = [ops EXCEPT ![p] = DoneOp(o)]
        /\ UNCHANGED <<store, heap, disturbed>>
        /\ UNCHANGED <<adapterKind, nops, hits, cascadeVars, budgetVars, clockVars, managerVars, routerVars, providerVars, apiVars, hubVars>>

\* Redis drops a key whose time to live has run out.
RedisExpire(key) ==
    /\ ~IsMemory
    /\ CellIndex(store, key) # 0
    /\ store[CellIndex(store, key)].deadline <= now
    /\ store' = AdapterDelete(store, key)
    /\ disturbed' = MarkDisturbed(store, store')
    /\ UNCHANGED <<adapterKind, heap, ops, nops, hits,
                   cascadeVars, budgetVars, clockVars, managerVars, routerVars, providerVars, apiVars, hubVars>>

\* A second passes.
CacheTick ==
    /\ now < MaxTicks
    /\ now' = now + 1
    /\ UNCHANGED <<clockSteps, cacheVars, cascadeVars, budgetVars, managerVars, routerVars, providerVars, apiVars, hubVars>>

(***************************************************************************)
(* Agent manager: AgentManager.processQuery, agent-manager.ts 112-307,     *)
(* with ArtifactManager (artifacts.ts) and the budget tracker above.       *)
(*                                                                         *)
(* The cache is seen through the outcome of its lookup, the router through *)
(* the decision it returns, a provider through the outcome of its call.    *)
(* A request is named by its number, which stands for its queryId.         *)
(***************************************************************************)
\* new ArtifactManager() (artifacts.ts 100).
maxArtifacts == 5000

\* A push that, over capacity, drops the artifact it was given.
ArtifactPushAt_dropNewest(list, a, max) ==
    LET l == <<a>> \o list
    IN  IF Len(l) > max THEN SubSeq(l, 2, max + 1) ELSE l

\* ArtifactManager.push (artifacts.ts 342-349) of a manager constructed
\* with capacity max: unshift, then slice(0, max).
ArtifactPushAt(list, a, max) ==
    LET l == <<a>> \o list
    IN  IF Len(l) > max THEN SubSeq(l, 1, max) ELSE l

\* push of the manager getArtifactManager() constructs.
ArtifactPush(list, a) == ArtifactPushAt(list, a, maxArtifacts)

\* The RoutingArtifact the record* methods build (artifacts.ts 108-257):
\* id is uid(), taken here as the number of the artifact in the order of
\* production; a cascade step keeps its score and threshold (in its
\* confidence and reasoning), the other artifacts have none.
\* An artifact carries no response data and no quality report until
\* enrichWithResponse gives it some (artifacts.ts 42-55).
NoEnrichment ==
    [contentLength |-> Null, tokensUsed |-> Null, responseTimeMs |-> Null,
     finishReason |-> ""]

NoReport == [overallScore |-> Null, confidence |-> Null]

\* The confidence a record* method gives its artifact (artifacts.ts 129,
\* 184, 213, 245), in hundredths: 0.8 for a route decision without one,
\* qualityScore / 10 for a cascade step, the similarity of the hit (here
\* that of an exact hit), 1.0 for a budget rejection.
InitialConfidence(type, qualityScore) ==
    CASE type = "route_decision" -> 80
      [] type \in {"cache_hit", "budget_reject"} -> 100
      [] OTHER -> qualityScore

Artifact(type, queryId, id, qualityScore, qualityThreshold) ==
    [type |-> type, queryId |-> queryId, id |-> id,
     qualityScore |-> qualityScore, qualityThreshold |-> qualityThreshold,
     actualCost |-> Null, response |-> NoEnrichment, qualityReport |-> NoReport,
     confidence |-> InitialConfidence(type, qualityScore)]

\* The place of the first artifact with the id, 0 when there is none
\* (artifacts.ts 261: this.artifacts.find).
FindArtifact(list, artifactId) ==
    IF \E i \in 1..Len(list) : list[i].id = artifactId
    THEN CHOOSE i \in 1..Len(list) :
            /\ list[i].id = artifactId
            /\ \A j \in 1..(i - 1) : list[j].id # artifactId
    ELSE 0

\* What enrichWithResponse writes into an artifact (artifacts.ts 264-274).
Enriched(a, response, qualityReport) ==
    [a EXCEPT !.actualCost = response.cost,
              !.response = [contentLength |-> Len(response.content),
                            tokensUsed |-> response.tokens.total,
                            responseTimeMs |-> response.responseTimeMs,
                            finishReason |-> response.finishReason],
              !.qualityReport = IF qualityReport # NoReport THEN qualityReport ELSE @,
              !.confidence = IF qualityReport # NoReport
                             THEN qualityReport.confidence ELSE @]

\* An enrichment that writes into every artifact of the same query.
enrichWithResponse_sameQuery(list, artifactId, response, qualityReport) ==
    IF FindArtifact(list, artifactId) = 0 THEN list
    ELSE [i \in 1..Len(list) |->
            IF list[i].queryId = list[FindArtifact(list, artifactId)].queryId
            THEN Enriched(list[i], response, qualityReport) ELSE list[i]]

\* ArtifactManager.enrichWithResponse (artifacts.ts 260-275).
enrichWithResponse(list, artifactId, response, qualityReport) ==
    IF FindArtifact(list, artifactId) = 0 THEN list
    ELSE [list EXCEPT ![FindArtifact(list, artifactId)] =
                          Enriched(@, response, qualityReport)]

\* ArtifactManager.getByQueryId (artifacts.ts 285-287).
getByQueryId(queryId) == SelectSeq(artifacts, LAMBDA a : a.queryId = queryId)

\* The capacity of the manager of SpecArtifacts, and the number of
\* artifacts recorded in it.
ArtifactCapacity == 2
MaxRecorded == 3

\* ArtifactType (artifacts.ts 27-35), the types the record* methods give.
ArtifactTypes ==
    {"route_decision", "cascade_escalation", "cascade_success", "cascade_failure",
     "cache_hit", "budget_reject"}

QueryIds == {1, 2}

\* One of recordRouteDecision, recordCascadeStep, recordCacheHit and
\* recordBudgetReject (artifacts.ts 108-257) on a manager of capacity
\* ArtifactCapacity: the artifact is built and pushed.
ArtifactRecord(type, queryId) ==
    /\ nartifacts < MaxRecorded
    /\ artifacts' = ArtifactPushAt(artifacts,
                                   Artifact(type, queryId, nartifacts + 1, Null, Null),
                                   ArtifactCapacity)
    /\ nartifacts' = nartifacts + 1
    /\ UNCHANGED <<reqs, nreqs, cascadeVars, budgetVars, clockVars, cacheVars, routerVars, providerVars, apiVars, hubVars>>

\* The responses and reports enrichWithResponse is called with: cost in
\* tenths of a micro-USD, confidence in hundredths.
ChatResponses ==
    { [cost |-> 4, content |-> <<>>, tokens |-> [total |-> 0],
       responseTimeMs |-> 1500, finishReason |-> "length"],
      [cost |-> 20000, content |-> <<"o", "k">>, tokens |-> [total |-> 250],
       responseTimeMs |-> 1500, finishReason |-> "stop"] }

QualityReports == {NoReport, [overallScore |-> 90, confidence |-> 95]}

\* enrichWithResponse is called (artifacts.ts 260-275) with the id of an
\* artifact the manager holds, has dropped, or never made.
ArtifactEnrich(artifactId, response, qualityReport) ==
    /\ artifacts' = enrichWithResponse(artifacts, artifactId, response, qualityReport)
    /\ UNCHANGED <<nartifacts, reqs, nreqs, cascadeVars, budgetVars, clockVars, cacheVars, routerVars, providerVars, apiVars, hubVars>>

\* SIMPLE_CASCADE (smart-router.ts 33-36), thresholds in tenths.
SIMPLE_CASCADE ==
    << [provider |-> "perplexity", model |-> "sonar", qualityThreshold |-> 70],
       [provider |-> "openai", model |-> "gpt-4o-mini", qualityThreshold |-> 80] >>

(***************************************************************************)
(* Smart router and cost calculator: routeQuery (smart-router.ts 222-272), *)
(* its strategies (79-209) and the cost registry (398-653).                *)
(*                                                                         *)
(* Prices are per token and costs are in hundredths of a micro-USD         *)
(* (1e-8 USD), in which every price of the registry is a whole number.     *)
(***************************************************************************)
\* MODEL_COSTS (smart-router.ts 398-481).
MODEL_COSTS ==
    << [provider |-> "perplexity", model |-> "sonar",
        inputCostPer1k |-> 100, outputCostPer1k |-> 100, perRequestCost |-> 500000,
        suitableFor |-> {"simple"}, capabilities |-> {"web_search", "citations"}],
       [provider |-> "perplexity", model |-> "sonar-pro",
        inputCostPer1k |-> 300, outputCostPer1k |-> 1500, perRequestCost |-> 500000,
        suitableFor |-> {"simple", "medium"},
        capabilities |-> {"web_search", "deep_search", "citations", "images"}],
       [provider |-> "perplexity", model |-> "sonar-reasoning-pro",
        inputCostPer1k |-> 200, outputCostPer1k |-> 800, perRequestCost |-> 500000,
        suitableFor |-> {"medium", "complex"},
        capabilities |-> {"web_search", "reasoning", "chain_of_thought", "citations"}],
       [provider |-> "openai", model |-> "gpt-4o-mini",
        inputCostPer1k |-> 15, outputCostPer1k |-> 60, perRequestCost |-> 0,
        suitableFor |-> {"simple", "medium"}, capabilities |-> {"code", "long_context"}],
       [provider |-> "openai", model |-> "gpt-4o",
        inputCostPer1k |-> 250, outputCostPer1k |-> 1000, perRequestCost |-> 0,
        suitableFor |-> {"medium", "complex"},
        capabilities |-> {"code", "reasoning", "long_context"}],
       [provider |-> "anthropic", model |-> "claude-sonnet-4-5",
        inputCostPer1k |-> 300, outputCostPer1k |-> 1500, perRequestCost |-> 0,
        suitableFor |-> {"complex"},
        capabilities |-> {"code", "reasoning", "long_context"}],
       [provider |-> "anthropic", model |-> "claude-opus-4-6",
        inputCostPer1k |-> 1500, outputCostPer1k |-> 7500, perRequestCost |-> 0,
        suitableFor |-> {"complex"},
        capabilities |-> {"code", "reasoning", "long_context"}] >>

Providers == {"perplexity", "openai", "anthropic"}

\* undefined / null, where a profile is expected.
NoProfile == [provider |-> "", model |-> ""]

\* getModelCostProfile (smart-router.ts 485-492).
getModelCostProfile(provider, model) ==
    LET found == SelectSeq(MODEL_COSTS,
                           LAMBDA m : m.provider = provider /\ m.model = model)
    IN  IF found = <<>> THEN NoProfile ELSE found[1]

\* listModelsForComplexity (smart-router.ts 498-502).
listModelsForComplexity(complexity) ==
    SelectSeq(MODEL_COSTS, LAMBDA m : complexity \in m.suitableFor)

\* estimateOutputTokens (smart-router.ts 524-540).
estimateOutputTokens(complexity, estimatedInputTokens) ==
    CASE complexity = "simple"  -> Min(200, Max(50, estimatedInputTokens * 2))
      [] complexity = "medium"  -> Min(800, Max(200, estimatedInputTokens * 3))
      [] complexity = "complex" -> Min(4000, Max(500, estimatedInputTokens * 4))
      [] OTHER -> 300

\* estimateCostForModel (smart-router.ts 542-550).
estimateCostForModel(profile, inputTokens, outputTokens) ==
    inputTokens * profile.inputCostPer1k + outputTokens * profile.outputCostPer1k
    + profile.perRequestCost

\* Array.prototype.sort by estimatedCost (smart-router.ts 520): stable, the
\* element put after those that cost no more.
RECURSIVE SortByCost(_)
SortByCost(list) ==
    IF list = <<>> THEN <<>>
    ELSE LET sorted == SortByCost(SubSeq(list, 1, Len(list) - 1))
             x == list[Len(list)]
             before == SelectSeq(sorted, LAMBDA y : y.estimatedCost <= x.estimatedCost)
             after == SelectSeq(sorted, LAMBDA y : y.estimatedCost > x.estimatedCost)
         IN  before \o <<x>> \o after

\* listModelsByCost (smart-router.ts 505-521).
listModelsByCost(complexity, estimatedInputTokens, estimatedOutputTokens) ==
    LET candidates == listModelsForComplexity(complexity)
    IN  SortByCost([i \in 1..Len(candidates) |->
            [profile |-> candidates[i],
             estimatedCost |-> estimateCostForModel(candidates[i], estimatedInputTokens,
                                                    estimatedOutputTokens)]])

\* cheapestModelWithinBudget (smart-router.ts 635-653).
cheapestModelWithinBudget(complexity, estimatedInputTokens, estimatedOutputTokens, remainingBudget) ==
    LET ranked == listModelsByCost(complexity, estimatedInputTokens, estimatedOutputTokens)
        fits == SelectSeq(ranked, LAMBDA r : r.estimatedCost <= remainingBudget)
    IN  IF fits = <<>> THEN NoProfile ELSE fits[1].profile

\* selectPerplexityModel (perplexity-provider.ts 166-174).
selectPerplexityModel(isRealtime, needsReasoning, needsDeepSearch) ==
    IF needsReasoning THEN "sonar-reasoning-pro"
    ELSE IF needsDeepSearch THEN "sonar-pro" ELSE "sonar"

\* MEDIUM_CASCADE and COMPLEX_CASCADE (smart-router.ts 38-48).
MEDIUM_CASCADE ==
    << [provider |-> "perplexity", model |-> "sonar-pro", qualityThreshold |-> 75],
       [provider |-> "openai", model |-> "gpt-4o-mini", qualityThreshold |-> 85],
       [provider |-> "openai", model |-> "gpt-4o", qualityThreshold |-> 90] >>

COMPLEX_CASCADE ==
    << [provider |-> "perplexity", model |-> "sonar-reasoning-pro", qualityThreshold |-> 80],
       [provider |-> "openai", model |-> "gpt-4o", qualityThreshold |-> 90],
       [provider |-> "anthropic", model |-> "claude-sonnet-4-5", qualityThreshold |-> 95] >>

\* getCascadeChain (smart-router.ts 50-76).
getCascadeChain(query) ==
    IF query.isRealtime
    THEN << [provider |-> "perplexity",
             model |-> selectPerplexityModel(TRUE, query.intent = "reasoning",
                                             query.complexity # "simple"),
             qualityThreshold |-> 70] >> \o Tail(MEDIUM_CASCADE)
    ELSE CASE query.complexity = "simple" -> SIMPLE_CASCADE
           [] query.complexity = "medium" -> MEDIUM_CASCADE
           [] OTHER -> COMPLEX_CASCADE

\* routePriority (smart-router.ts 80-138).
routePriority(query) ==
    IF query.isRealtime \/ query.intent = "search"
    THEN [provider |-> "perplexity",
          model |-> selectPerplexityModel(query.isRealtime, query.intent = "reasoning",
                                          query.complexity # "simple")]
    ELSE IF query.intent = "reasoning"
    THEN IF query.complexity = "complex"
         THEN [provider |-> "anthropic", model |-> "claude-sonnet-4-5"]
         ELSE [provider |-> "perplexity", model |-> "sonar-reasoning-pro"]
    ELSE IF query.intent = "code"
    THEN IF query.complexity = "complex"
         THEN [provider |-> "anthropic", model |-> "claude-sonnet-4-5"]
         ELSE [provider |-> "openai", model |-> "gpt-4o"]
    ELSE IF query.complexity \in {"simple", "medium"}
    THEN [provider |-> "openai", model |-> "gpt-4o-mini"]
    ELSE [provider |-> "anthropic", model |-> "claude-sonnet-4-5"]

\* routeCostOptimized (smart-router.ts 140-177).
routeCostOptimized(query) ==
    LET estimatedOutput == estimateOutputTokens(query.complexity, query.estimatedTokens)
        ranked == listModelsByCost(query.complexity, query.estimatedTokens, estimatedOutput)
        searchCandidates == SelectSeq(ranked,
                                LAMBDA r : "web_search" \in r.profile.capabilities)
        pick(best) == [provider |-> best.profile.provider, model |-> best.profile.model]
    IN  IF (query.isRealtime \/ query.intent = "search") /\ searchCandidates # <<>>
        THEN pick(searchCandidates[1])
        ELSE IF ranked # <<>> THEN pick(ranked[1])
        ELSE [provider |-> "openai", model |-> "gpt-4o-mini"]

\* budget.dailyRemaining (src/unnamed/part_005 120-122) in the unit of the
\* router: the budget tracker counts tenths of a micro-USD.
dailyRemaining == 10 * getStatus("daily").remaining

\* routeEmergency (smart-router.ts 179-209).
routeEmergency(query) ==
    LET estimatedOutput == estimateOutputTokens(query.complexity, query.estimatedTokens)
        cheapest == cheapestModelWithinBudget(query.complexity, query.estimatedTokens,
                                              estimatedOutput, dailyRemaining)
    IN  IF cheapest # NoProfile
        THEN [provider |-> cheapest.provider, model |-> cheapest.model]
        ELSE [provider |-> "openai", model |-> "gpt-4o-mini"]

\* isProviderDisabled (src/unnamed/part_005 135-138).
isProviderDisabled(provider) ==
    IF ~emergencyModeActive THEN FALSE
    ELSE provider \in config.emergencyMode.disableProviders

\* determineStrategy (smart-router.ts 274-279); "" is no configured
\* strategy.
determineStrategy(configured, isEmergency) ==
    IF isEmergency THEN "emergency"
    ELSE IF configured = "" THEN "cascade" ELSE configured

\* routeQuery (smart-router.ts 222-272): the decision without its reason
\* and its cost estimate.
routeQuery(query, configured) ==
    LET strategy == determineStrategy(configured, emergencyModeActive)
        cascadeChain == IF strategy = "cascade" THEN getCascadeChain(query) ELSE <<>>
        first == CASE strategy = "emergency" -> routeEmergency(query)
                   [] strategy = "cost-optimized" -> routeCostOptimized(query)
                   [] strategy = "cascade" ->
                        [provider |-> cascadeChain[1].provider,
                         model |-> cascadeChain[1].model]
                   [] OTHER -> routePriority(query)
        selection == IF isProviderDisabled(first.provider) THEN routeEmergency(query)
                     ELSE first
    IN  [provider |-> selection.provider,
         model |-> selection.model,
         strategy |-> strategy,
         cascadeChain |-> cascadeChain,
         emergencyMode |-> emergencyModeActive]

\* The queries classifyQuery may hand to the router.
ClassifiedQueries ==
    [complexity : {"simple", "medium", "complex"},
     intent : {"search", "reasoning", "chat", "code"},
     isRealtime : BOOLEAN,
     estimatedTokens : {10, 2000}]

\* config.strategy of a call, "" when none is given.
Strategies == {"", "priority", "cost-optimized", "cascade"}

NoRouted ==
    [decision |-> [provider |-> "", model |-> "", strategy |-> "",
                   cascadeChain |-> <<>>, emergencyMode |-> FALSE],
     providerDisabled |-> FALSE]

\* A call of routeQuery; providerDisabled is what isProviderDisabled says
\* of the provider of the decision when it is returned.
RouteQuery(query, configured) ==
    LET decision == routeQuery(query, configured)
    IN  /\ routed' = [decision |-> decision,
                      providerDisabled |-> isProviderDisabled(decision.provider)]
        /\ UNCHANGED <<priced, estimate, cascadeVars, budgetVars, clockVars, cacheVars, managerVars, providerVars, apiVars, hubVars>>

\* MODEL_PRICES of the OpenAI adapter (providers/openai.ts, metrics.ts
\* 326-329), per token in hundredths of a micro-USD.
OPENAI_MODEL_PRICES ==
    << [model |-> "gpt-4o", input |-> 500, output |-> 1500, perRequest |-> 0],
       [model |-> "gpt-4o-mini", input |-> 15, output |-> 60, perRequest |-> 0] >>

\* MODEL_PRICES of the Perplexity adapter (src/unnamed/part_012 20-24).
PERPLEXITY_MODEL_PRICES ==
    << [model |-> "sonar", input |-> 100, output |-> 100, perRequest |-> 500000],
       [model |-> "sonar-pro", input |-> 300, output |-> 1500, perRequest |-> 500000],
       [model |-> "sonar-reasoning-pro", input |-> 200, output |-> 800,
        perRequest |-> 500000] >>

\* MODEL_PRICES of the Anthropic adapter (src/unnamed/part_011 11-14).
ANTHROPIC_MODEL_PRICES ==
    << [model |-> "claude-sonnet-4-5", input |-> 300, output |-> 1500, perRequest |-> 0],
       [model |-> "claude-opus-4-6", input |-> 1500, output |-> 7500, perRequest |-> 0] >>

\* The price table of the adapter of a provider.
ModelPrices(provider) ==
    CASE provider = "openai" -> OPENAI_MODEL_PRICES
      [] provider = "anthropic" -> ANTHROPIC_MODEL_PRICES
      [] OTHER -> PERPLEXITY_MODEL_PRICES

\* getAvailableModels (metrics.ts 344-346, src/unnamed/part_012 39-41).
getAvailableModels(provider) ==
    {ModelPrices(provider)[i].model : i \in 1..Len(ModelPrices(provider))}

\* The provider adapters of the repository.
Adapters == {"openai", "perplexity", "anthropic"}

\* estimateCost of an adapter (metrics.ts 348-351, src/unnamed/part_012
\* 43-46, src/unnamed/part_011 34-37): the price of the model, that of the
\* fallback model when the model is not in the table (gpt-4o-mini, sonar,
\* claude-sonnet-4-5).
AdapterEstimateCost(provider, inputTokens, outputTokens, model) ==
    LET table == ModelPrices(provider)
        found == SelectSeq(table, LAMBDA p : p.model = model)
        fallback == IF provider = "openai" THEN table[2] ELSE table[1]
        p == IF found = <<>> THEN fallback ELSE found[1]
    IN  inputTokens * p.input + outputTokens * p.output + p.perRequest

\* computeActualCost (smart-router.ts 587-616): totalCost.
computeActualCost(provider, model, inputTokens, outputTokens) ==
    LET profile == getModelCostProfile(provider, model)
    IN  IF profile = NoProfile THEN 0
        ELSE inputTokens * profile.inputCostPer1k
             + outputTokens * profile.outputCostPer1k + profile.perRequestCost

\* usage.prompt_tokens and usage.completion_tokens of a provider answer.
TokenCounts == {0, 1, 500, 1000, 2048}

NoPriced ==
    [provider |-> "", model |-> "", tokens |-> [input |-> 0, output |-> 0],
     cost |-> 0, actualCost |-> 0]

\* An adapter maps the answer of its provider into a ChatResponse
\* (metrics.ts 403-421, src/unnamed/part_012 110-131) and the cost
\* calculator prices the tokens of that response (agent-manager.ts 272-277).
ProviderRespond(provider, model, input, output) ==
    /\ priced' = [provider |-> provider, model |-> model,
                  tokens |-> [input |-> input, output |-> output],
                  cost |-> AdapterEstimateCost(provider, input, output, model),
                  actualCost |-> computeActualCost(provider, model, input, output)]
    /\ UNCHANGED <<routed, estimate, cascadeVars, budgetVars, clockVars, cacheVars, managerVars, providerVars, apiVars, hubVars>>

\* An estimateCost whose total leaves the per-request fee out.
estimateCost_noRequestFee(provider, model, estimatedInputTokens, estimatedOutputTokens) ==
    LET profile == getModelCostProfile(provider, model)
        inputCost == estimatedInputTokens * profile.inputCostPer1k
        outputCost == estimatedOutputTokens * profile.outputCostPer1k
    IN  IF profile = NoProfile
        THEN [provider |-> provider, model |-> model, estimatedCost |-> 0,
              breakdown |-> [inputCost |-> 0, outputCost |-> 0, perRequestCost |-> 0],
              raised |-> FALSE]
        ELSE [provider |-> provider, model |-> model,
              estimatedCost |-> inputCost + outputCost,
              breakdown |-> [inputCost |-> inputCost, outputCost |-> outputCost,
                             perRequestCost |-> profile.perRequestCost],
              raised |-> FALSE]

\* estimateCost (smart-router.ts 553-583); raised tells whether the call
\* threw, which no path of it does.
estimateCost(provider, model, estimatedInputTokens, estimatedOutputTokens) ==
    LET profile == getModelCostProfile(provider, model)
        inputCost == estimatedInputTokens * profile.inputCostPer1k
        outputCost == estimatedOutputTokens * profile.outputCostPer1k
    IN  IF profile = NoProfile
        THEN [provider |-> provider, model |-> model, estimatedCost |-> 0,
              breakdown |-> [inputCost |-> 0, outputCost |-> 0, perRequestCost |-> 0],
              raised |-> FALSE]
        ELSE [provider |-> provider, model |-> model,
              estimatedCost |-> inputCost + outputCost + profile.perRequestCost,
              breakdown |-> [inputCost |-> inputCost, outputCost |-> outputCost,
                             perRequestCost |-> profile.perRequestCost],
              raised |-> FALSE]

\* The model names handed to estimateCost: those of the registry and one
\* that is not registered (src/unnamed/part_013 105-109).
ModelNames ==
    {MODEL_COSTS[i].model : i \in 1..Len(MODEL_COSTS)} \cup {"unknown-model"}

NoEstimate ==
    [provider |-> "", model |-> "", estimatedCost |-> 0,
     breakdown |-> [inputCost |-> 0, outputCost |-> 0, perRequestCost |-> 0],
     raised |-> FALSE]

\* A call of estimateCost.
EstimateCost(provider, model, input, output) ==
    /\ estimate' = estimateCost(provider, model, input, output)
    /\ UNCHANGED <<routed, priced, cascadeVars, budgetVars, clockVars, cacheVars, managerVars, providerVars, apiVars, hubVars>>

(***************************************************************************)
(* Agent manager: the steps of AgentManager.processQuery                   *)
(* (agent-manager.ts 112-307).                                             *)
(***************************************************************************)
\* The classified queries processQuery hands to routeQuery: one routed to
\* SIMPLE_CASCADE and one routed to COMPLEX_CASCADE, whose last step is on
\* a provider the emergency mode disables.
ManagerQueries ==
    { [complexity |-> "simple", intent |-> "chat", isRealtime |-> FALSE,
       estimatedTokens |-> 10],
      [complexity |-> "complex", intent |-> "reasoning", isRealtime |-> FALSE,
       estimatedTokens |-> 10] }

\* tokens.input and tokens.output of the response of a provider call.
ResponseTokens == { [input |-> 10, output |-> 50], [input |-> 20, output |-> 100] }

NoTokens == [input |-> 0, output |-> 0]

\* A cost of the router (hundredths of a micro-USD) in the unit of the
\* budget tracker (tenths of a micro-USD).
ToBudgetUnits(cost) == cost \div 10

\* No ActualCost: nothing was recorded.
NoActualCost == [provider |-> "", model |-> "", totalCost |-> Null]

\* A provider call as it is started (agent-manager.ts 212-224, 252-262):
\* isDisabled is what isProviderDisabled says of the provider then.
StartedCall(provider, model) ==
    [provider |-> provider, model |-> model,
     isDisabled |-> isProviderDisabled(provider),
     ok |-> FALSE, tokens |-> NoTokens, cost |-> 0]

\* The call has answered: its ChatResponse carries the tokens and the cost
\* the adapter computed (providers/base.ts 88-97).
AnsweredCall(call, tokens) ==
    [call EXCEPT !.ok = TRUE, !.tokens = tokens,
                 !.cost = ToBudgetUnits(AdapterEstimateCost(call.provider, tokens.input,
                                                            tokens.output, call.model))]

\* An ActualCost priced at the rates of the model that answered.
ActualCostOf_answering(routing, call) ==
    [provider |-> call.provider, model |-> call.model,
     totalCost |-> ToBudgetUnits(computeActualCost(call.provider, call.model,
                                                   call.tokens.input, call.tokens.output))]

\* The ActualCost of the post-processing (agent-manager.ts 272-277): the
\* tokens of the returned response at the rates of routing.provider and
\* routing.model.
ActualCostOf(routing, call) ==
    [provider |-> routing.provider, model |-> routing.model,
     totalCost |-> ToBudgetUnits(computeActualCost(routing.provider, routing.model,
                                                   call.tokens.input, call.tokens.output))]

\* What cache.lookup gives processQuery: an entry, null, or an exception of
\* the adapter.
LookupOutcomes == {"hit", "miss", "raise"}

\* The scores quality.estimate gives a response, in tenths: one below and
\* one above the thresholds of SIMPLE_CASCADE.
ResponseQualities == {65, 90}

\* The locals of executeCascade once it has ended: its result is kept.
Ended(c) ==
    [CascadeStart EXCEPT !.status = c.status, !.step = c.step, !.response = c.response]

\* totalCost of the ActualCost of a response, in tenths of a micro-USD.
ResponseCosts == {4, 20000}

NoError == [code |-> "", statusCode |-> 0]

\* BudgetExceededError (utils/errors.ts 58-68).
BudgetExceededError == [code |-> "BUDGET_EXCEEDED", statusCode |-> 429]

\* The Error of executeCascade (smart-router.ts 358-360).
AllStepsFailedError == [code |-> "ALL_CASCADE_STEPS_FAILED", statusCode |-> 0]

\* An exception of a provider or of the cache adapter, passed on as it is.
ForeignError == [code |-> "FOREIGN", statusCode |-> 0]

\* The cache entries a hit may answer with: cost in tenths of a micro-USD.
CachedEntries == { [cost |-> 4, tokensUsed |-> 1], [cost |-> 20000, tokensUsed |-> 2] }

\* No response: the response of a provider is followed by its cost alone.
NoResponse == [cost |-> Null, tokens |-> [input |-> Null, output |-> Null, total |-> Null],
               cacheHit |-> FALSE]

\* A response that carries the cost and tokens of the cached entry.
cachedResponse_entryCost(entry) ==
    [cost |-> entry.cost,
     tokens |-> [input |-> entry.tokensUsed, output |-> entry.tokensUsed,
                 total |-> entry.tokensUsed],
     cacheHit |-> TRUE]

\* cachedResponse (agent-manager.ts 149-162).
cachedResponse(entry) ==
    [cost |-> 0,
     tokens |-> [input |-> 0, output |-> entry.tokensUsed, total |-> entry.tokensUsed],
     cacheHit |-> TRUE]

\* What classifyQuery tells shouldSkipCache about a query.
Classifications ==
    { [isRealtime |-> TRUE, intent |-> "chat"],
      [isRealtime |-> FALSE, intent |-> "creative"],
      [isRealtime |-> FALSE, intent |-> "chat"] }

\* No classification: before classifyQuery, and once the lookup has
\* answered, after which the model takes what depends on the
\* classification (the routing, the scores) as inputs of its steps.
NoClassification == [isRealtime |-> FALSE, intent |-> ""]

\* shouldSkipCache (query-classifier.ts, src/unnamed/part_010 630-643).
shouldSkipCache(classified) ==
    IF classified.isRealtime THEN TRUE
    ELSE IF classified.intent = "creative" THEN TRUE
    ELSE FALSE

\* The processQuery calls of a behaviour, by number.
RequestIds == 1..(MaxRequests + 1)

IdleReq ==
    [ pc |-> "idle",                \* idle | lookup | cascade | direct | post | done
      classification |-> NoClassification,
      lookupCalls |-> 0,            \* cache.lookup calls made
      cacheHit |-> FALSE,
      lookup |-> "",                \* outcome of cache.lookup
      percentUsed |-> -1,           \* dailyStatus.percentUsed, once read
      routing |-> NoRouted.decision,
      calls |-> <<>>,               \* the provider calls started, in order
      recordedCost |-> NoActualCost,\* the ActualCost handed to recordCost
      cascade |-> CascadeStart,
      generatedArtifacts |-> <<>>,
      providerCalls |-> 0,          \* provider.chat calls started
      costCalls |-> 0,              \* budget.recordCost calls made
      response |-> NoResponse,
      analytics |-> <<>>,           \* the events recorded with the collector
      result |-> "none",            \* none | returned | threw
      error |-> NoError ]

\* A budget gate that lets a request through at exactly 100 percent.
OverBudget_above(status) == status.percentUsed > 10000

\* The test of the budget gate (agent-manager.ts 181).
OverBudget(status) == status.percentUsed >= 10000

\* The type recordCascadeStep gives its artifact (artifacts.ts 165-167).
CascadeStepType(hasNext, quality, threshold) ==
    IF hasNext THEN "cascade_escalation"
    ELSE IF quality >= threshold THEN "cascade_success" ELSE "cascade_failure"

\* An artifact recorded for request r: pushed to the manager and to the
\* request's generatedArtifacts.
Record(r, rq, type) ==
    LET art == Artifact(type, r, nartifacts + 1, Null, Null)
    IN  /\ artifacts' = ArtifactPush(artifacts, art)
        /\ nartifacts' = nartifacts + 1
        /\ reqs' = [reqs EXCEPT ![r] =
              [rq EXCEPT !.generatedArtifacts = Append(@, art)]]

\* processQuery is called (agent-manager.ts 116-131): classification, and
\* the cache lookup is awaited.
ReqBegin(classification, limit) ==
    /\ nreqs < limit
    /\ nreqs' = nreqs + 1
    /\ reqs' = [reqs EXCEPT ![nreqs + 1] =
          [IdleReq EXCEPT !.pc = "lookup", !.classification = classification,
                          !.lookupCalls = 1]]
    /\ UNCHANGED <<artifactVars, cascadeVars, budgetVars, clockVars, cacheVars, routerVars, providerVars, apiVars, hubVars>>

ReqStart(classification) == ReqBegin(classification, MaxRequests)

\* The lookup has answered (agent-manager.ts 128-268): a cache hit returns,
\* the budget gate rejects, or the query is routed and the first provider
\* call is started.
ReqAfterLookup(r, outcome, entry, query) ==
    LET rq == [reqs[r] EXCEPT !.classification = NoClassification]
        dailyStatus == getStatus("daily")
        routing == routeQuery(query, "")
        first == IF routing.strategy = "cascade" /\ routing.cascadeChain # <<>>
                 THEN routing.cascadeChain[1] ELSE routing
    IN  /\ rq.pc = "lookup"
        /\ CASE outcome = "raise" ->
                  /\ reqs' = [reqs EXCEPT ![r] =
                        [rq EXCEPT !.pc = "done", !.lookup = outcome,
                                   !.result = "threw", !.error = ForeignError]]
                  /\ UNCHANGED artifactVars
             [] outcome = "hit" ->
                  Record(r, [rq EXCEPT !.pc = "done", !.lookup = outcome,
                                       !.cacheHit = TRUE,
                                       !.response = cachedResponse(entry),
                                       !.analytics = <<"cache_hit">>,
                                       !.result = "returned"],
                         "cache_hit")
             [] outcome = "miss" /\ OverBudget(dailyStatus) ->
                  Record(r, [rq EXCEPT !.pc = "done", !.lookup = outcome,
                                       !.percentUsed = dailyStatus.percentUsed,
                                       !.analytics = <<"cache_miss">>,
                                       !.result = "threw",
                                       !.error = BudgetExceededError],
                         "budget_reject")
             [] OTHER ->
                  Record(r, [rq EXCEPT
                                !.pc = IF routing.strategy = "cascade"
                                          /\ routing.cascadeChain # <<>>
                                       THEN "cascade" ELSE "direct",
                                !.lookup = outcome,
                                !.percentUsed = dailyStatus.percentUsed,
                                !.routing = routing,
                                !.analytics = <<"cache_miss">>,
                                !.calls = <<StartedCall(first.provider, first.model)>>,
                                !.providerCalls = @ + 1],
                         "route_decision")
        /\ UNCHANGED <<nreqs, cascadeVars, budgetVars, clockVars, cacheVars, routerVars, providerVars, apiVars, hubVars>>

\* A post-processing that does not count its call of the tracker.
CostRecorded_not(rq) == rq

\* The request after its call of budget.recordCost (agent-manager.ts 296).
CostRecorded(rq) == [rq EXCEPT !.costCalls = @ + 1]

\* The post-processing of a response (agent-manager.ts 272-297): the cost
\* is recorded in the budget tracker and the cache store is awaited.
PostProcess(r, rq, call) ==
    LET actualCost == ActualCostOf(rq.routing, call)
    IN  /\ RecordCost([totalCost |-> actualCost.totalCost, timestamp |-> now])
        /\ lastOp' = OtherOp
        /\ reqs' = [reqs EXCEPT ![r] = [CostRecorded(rq) EXCEPT
                                           !.pc = "post",
                                           !.recordedCost = actualCost,
                                           !.analytics = Append(@, "query")]]
    /\ UNCHANGED config

\* The run of a cascade step has resolved and evaluate scored it
\* (smart-router.ts 320-348, agent-manager.ts 225-249): onStep records its
\* artifact, then the cascade returns, or starts the next step, or ends.
ReqCascadeStepOk(r, quality, tokens) ==
    LET rq == reqs[r]
        ch == rq.routing.cascadeChain
        c == CascadeIterOk(rq.cascade, ch, quality)
        threshold == ch[rq.cascade.i + 1].qualityThreshold
        art == Artifact(CascadeStepType(rq.cascade.i + 2 <= Len(ch), quality, threshold),
                        r, nartifacts + 1, quality, threshold)
        rq1 == [rq EXCEPT !.cascade = c,
                          !.calls[Len(rq.calls)] = AnsweredCall(@, tokens),
                          !.generatedArtifacts = Append(@, art)]
    IN  /\ rq.pc = "cascade"
        /\ artifacts' = ArtifactPush(artifacts, art)
        /\ nartifacts' = nartifacts + 1
        /\ CASE c.status = "returned" ->
                  PostProcess(r, [rq1 EXCEPT !.cascade = Ended(c)],
                              rq1.calls[c.response + 1])
             [] c.status = "thrown" ->
                  /\ reqs' = [reqs EXCEPT ![r] =
                        [rq1 EXCEPT !.pc = "done", !.result = "threw",
                                    !.error = AllStepsFailedError,
                                    !.cascade = Ended(c)]]
                  /\ UNCHANGED budgetVars
             [] OTHER ->
                  /\ reqs' = [reqs EXCEPT ![r] =
                        [rq1 EXCEPT !.calls = Append(@, StartedCall(ch[c.i + 1].provider,
                                                                    ch[c.i + 1].model)),
                                    !.providerCalls = @ + 1]]
                  /\ UNCHANGED budgetVars
        /\ UNCHANGED <<nreqs, cascadeVars, clockVars, cacheVars, routerVars, providerVars, apiVars, hubVars>>

\* The run of a cascade step has raised (smart-router.ts 349-369).
ReqCascadeStepFail(r) ==
    LET rq == reqs[r]
        ch == rq.routing.cascadeChain
        c == CascadeIterFail(rq.cascade, ch)
        rq1 == [rq EXCEPT !.cascade = c]
    IN  /\ rq.pc = "cascade"
        /\ CASE c.status = "returned" ->
                  /\ PostProcess(r, [rq1 EXCEPT !.cascade = Ended(c)],
                                 rq1.calls[c.response + 1])
                  /\ UNCHANGED artifactVars
             [] c.status = "thrown" ->
                  /\ reqs' = [reqs EXCEPT ![r] =
                        [rq1 EXCEPT !.pc = "done", !.result = "threw",
                                    !.error = AllStepsFailedError,
                                    !.cascade = Ended(c)]]
                  /\ UNCHANGED <<budgetVars, artifactVars>>
             [] OTHER ->
                  /\ reqs' = [reqs EXCEPT ![r] =
                        [rq1 EXCEPT !.calls = Append(@, StartedCall(ch[c.i + 1].provider,
                                                                    ch[c.i + 1].model)),
                                    !.providerCalls = @ + 1]]
                  /\ UNCHANGED <<budgetVars, artifactVars>>
        /\ UNCHANGED <<nreqs, cascadeVars, clockVars, cacheVars, routerVars, providerVars, apiVars, hubVars>>

\* The route_decision artifact of a request (agent-manager.ts 197-202).
RouteArtifactId(rq) ==
    LET g == rq.generatedArtifacts
    IN  g[CHOOSE i \in 1..Len(g) : g[i].type = "route_decision"].id

\* The direct provider call has answered (agent-manager.ts 252-297): the
\* response is scored and written into the route artifact, which the
\* manager and the request's generatedArtifacts share, then post-processed.
ReqDirectDone(r, ok, tokens, response, report) ==
    LET rq == [reqs[r] EXCEPT !.calls[1] = IF ok THEN AnsweredCall(@, tokens) ELSE @]
    IN  /\ reqs[r].pc = "direct"
        /\ IF ok
           THEN /\ artifacts' = enrichWithResponse(artifacts, RouteArtifactId(rq),
                                                   response, report)
                /\ UNCHANGED nartifacts
                /\ PostProcess(r, [rq EXCEPT !.generatedArtifacts =
                                       IF FindArtifact(artifacts, RouteArtifactId(rq)) = 0
                                       THEN @
                                       ELSE enrichWithResponse(@, RouteArtifactId(rq),
                                                               response, report)],
                               rq.calls[1])
           ELSE /\ reqs' = [reqs EXCEPT ![r] =
                      [rq EXCEPT !.pc = "done", !.result = "threw",
                                 !.error = ForeignError]]
                /\ UNCHANGED <<budgetVars, artifactVars>>
        /\ UNCHANGED <<nreqs, cascadeVars, clockVars, cacheVars, routerVars, providerVars, apiVars, hubVars>>

\* The post-processing has settled (agent-manager.ts 279-306): the cache
\* store ended, well or not, its failure caught and logged, and
\* processQuery returns.
ReqReturn(r, storeOk) ==
    /\ reqs[r].pc = "post"
    /\ reqs' = [reqs EXCEPT ![r] = [@ EXCEPT !.pc = "done", !.result = "returned"]]
    /\ UNCHANGED <<nreqs, artifactVars, cascadeVars, budgetVars, clockVars, cacheVars, routerVars, providerVars, apiVars, hubVars>>

(***************************************************************************)
(* Provider adapter: BaseProvider.chat and withRetry (providers/base.ts    *)
(* 76-152).  Every await is a step boundary: the call of _chat and the     *)
(* sleep between two attempts.                                             *)
(***************************************************************************)
\* The maxRetries chat hands to withRetry (providers/base.ts 85).
maxRetries == 2

\* A retry loop that goes round once more.
LoopGoesOn_oneMore(attempt, max) == attempt <= max + 1

\* The test of the loop of withRetry (providers/base.ts 139).
LoopGoesOn(attempt, max) == attempt <= max

NoChatError == [name |-> "", provider |-> "", model |-> "", statusCode |-> 0]

\* What _chat may raise: the ProviderError of the adapter for an answer
\* that is not ok (metrics.ts 395-401, src/unnamed/part_012 101-107,
\* src/unnamed/part_011 86-92), or an Error of fetch (network, timeout).
ChatErrors(name, model) ==
    { [name |-> "ProviderError", provider |-> name, model |-> model, statusCode |-> 500],
      [name |-> "Error", provider |-> "", model |-> "", statusCode |-> 0] }

\* The wrapping of chat (providers/base.ts 103-106); ProviderError gives
\* statusCode 502 when none is passed (utils/errors.ts 49).
Wrap(name, model, err) ==
    IF err.name = "ProviderError" THEN err
    ELSE [name |-> "ProviderError", provider |-> name, model |-> model, statusCode |-> 502]

IdleChat ==
    [ pc |-> "idle",            \* idle | awaiting | sleep | done
      model |-> "",
      attempt |-> 0,            \* the loop variable of withRetry
      invocations |-> 0,        \* calls of _chat made
      last |-> NoChatError,
      result |-> "none",        \* none | returned | threw
      error |-> NoChatError ]

\* The health after a failed chat (providers/base.ts 100-102).
FailedHealth(h) ==
    LET errors == h.totalErrors + 1
    IN  [h EXCEPT !.totalErrors = errors,
                  !.status = IF errors * 10 > 3 * h.totalRequests
                             THEN "unhealthy" ELSE "degraded"]

\* chat is called (providers/base.ts 76-85): the first attempt is started.
ChatBegin(model) ==
    \E c \in 1..MaxChats :
        /\ chats.calls[c].pc = "idle"
        /\ \A d \in 1..(c - 1) : chats.calls[d].pc # "idle"
        /\ chats' = [chats EXCEPT
              !.health.totalRequests = @ + 1,
              !.calls[c] = [IdleChat EXCEPT !.pc = "awaiting", !.model = model,
                                            !.invocations = 1]]
        /\ UNCHANGED <<cascadeVars, budgetVars, clockVars, cacheVars, managerVars,
                       routerVars, apiVars, hubVars>>

\* _chat has answered (providers/base.ts 85-97, 141): withRetry returns it
\* and chat returns the response.
ChatAttemptOk(c) ==
    /\ chats.calls[c].pc = "awaiting"
    /\ chats' = [chats EXCEPT
          !.health.status = "healthy",
          !.calls[c] = [@ EXCEPT !.pc = "done", !.result = "returned"]]
    /\ UNCHANGED <<cascadeVars, budgetVars, clockVars, cacheVars, managerVars,
                   routerVars, apiVars, hubVars>>

\* The loop of withRetry comes round with the next value of attempt
\* (providers/base.ts 139-151) in call c of adapter state base: another
\* call of _chat, or throw last, which chat wraps (98-111).
ChatLoop(base, c, attempt) ==
    IF LoopGoesOn(attempt, maxRetries)
    THEN [base EXCEPT
            !.calls[c] = [@ EXCEPT !.pc = "awaiting", !.attempt = attempt,
                                   !.invocations = @ + 1]]
    ELSE [base EXCEPT
            !.health = FailedHealth(base.health),
            !.calls[c] = [@ EXCEPT !.pc = "done", !.attempt = attempt,
                                   !.result = "threw",
                                   !.error = Wrap(base.name, base.calls[c].model,
                                                  base.calls[c].last)]]

\* _chat has raised (providers/base.ts 142-149): a sleep before the next
\* attempt, or the end of the loop.
ChatAttemptFail(c, err) ==
    LET call == chats.calls[c]
        failed == [chats EXCEPT !.calls[c].last = err]
    IN  /\ call.pc = "awaiting"
        /\ err \in ChatErrors(chats.name, call.model)
        /\ chats' = IF call.attempt < maxRetries
                    THEN [failed EXCEPT !.calls[c].pc = "sleep"]
                    ELSE ChatLoop(failed, c, call.attempt + 1)
        /\ UNCHANGED <<cascadeVars, budgetVars, clockVars, cacheVars, managerVars,
                       routerVars, apiVars, hubVars>>

\* The sleep of backoffMs(attempt) is over (providers/base.ts 144-147).
ChatWake(c) ==
    /\ chats.calls[c].pc = "sleep"
    /\ chats' = ChatLoop(chats, c, chats.calls[c].attempt + 1)
    /\ UNCHANGED <<cascadeVars, budgetVars, clockVars, cacheVars, managerVars,
                   routerVars, apiVars, hubVars>>

(***************************************************************************)
(* HTTP gateway: the handler of POST /api/query (gateway/routes.ts,        *)
(* src/unnamed/part_006 59-268).  Every await is a step boundary: the      *)
(* cache lookup, each provider call, the cache store.                      *)
(***************************************************************************)
\* The provider maps server.ts may hand to createRouter: a provider is
\* registered when its API key is set (server.ts 48-58).
ProviderMaps == { Providers, {"perplexity", "openai"} }

\* The classifications of the contents posted.
ApiQueries ==
    [complexity : {"simple", "complex"},
     intent : {"chat", "reasoning"},
     isRealtime : BOOLEAN,
     estimatedTokens : {10}]

\* What the handler may catch: a DeepEyeClawError carries its code and its
\* statusCode, any other Error carries neither.
PlainError == [isDeepEyeClawError |-> FALSE, code |-> "", statusCode |-> 0]

\* DeepEyeClawError(..., "PROVIDER_UNAVAILABLE", 503) (part_006 128-134).
ProviderUnavailable ==
    [isDeepEyeClawError |-> TRUE, code |-> "PROVIDER_UNAVAILABLE", statusCode |-> 503]

\* The ProviderError chat throws, as the handler sees it (utils/errors.ts
\* 37-56): a DeepEyeClawError with code PROVIDER_ERROR.
ThrownByChat(err) ==
    [isDeepEyeClawError |-> TRUE, code |-> "PROVIDER_ERROR", statusCode |-> err.statusCode]

\* The errors a chat call of provider name may end with, after its
\* retries (providers/base.ts 98-111).
TerminalChatErrors(name, model) ==
    { ThrownByChat(Wrap(name, model, e)) : e \in ChatErrors(name, model) }

\* The error the catch block answers with (part_006 256-260).
RouteError(err) ==
    IF err.isDeepEyeClawError
    THEN [code |-> err.code, statusCode |-> err.statusCode]
    ELSE [code |-> "INTERNAL_ERROR", statusCode |-> 500]

\* No query: before the content is classified.
NoQuery == [complexity |-> "", intent |-> "", isRealtime |-> FALSE, estimatedTokens |-> 0]

IdleApi ==
    [ pc |-> "idle",            \* idle | lookup | cascade | direct | store | done
      query |-> NoQuery,
      skipCache |-> FALSE,
      percentUsed |-> -1,       \* daily percentUsed when the lookup had answered
      decision |-> NoRouted.decision,
      cascade |-> CascadeStart,
      running |-> FALSE,        \* a chat call of the current cascade step is in flight
      providerCalls |-> 0,      \* provider.chat calls started
      costCalls |-> 0,          \* budget.recordCost calls made
      cacheHit |-> FALSE,
      terminal |-> "",          \* what ended the provider calls: direct | cascade
      effects |-> <<>>,         \* the calls that record or send, in order
      inFlight |-> 0,           \* queriesInFlight
      error |-> NoError,
      status |-> 0 ]            \* the HTTP status answered, 0 before

\* The catch block (part_006 254-268).
ApiCatch(a, err) ==
    LET error == RouteError(err)
    IN  [a EXCEPT !.pc = "done", !.error = error,
                  !.effects = @ \o <<"analytics.recordError", "metrics.recordError",
                                     "response">>,
                  !.inFlight = @ - 1,
                  !.status = error.statusCode]

\* Steps 9 to 11 (part_006 195-253), percentUsed being that of the daily
\* status read in step 10.
ApiAnswer(a, percentUsed) ==
    [a EXCEPT !.pc = "done",
              !.effects = @ \o <<"analytics.recordQuery", "ws.broadcastEvent",
                                 "metrics.recordQuery">>
                            \o (IF percentUsed > 7500 THEN <<"ws.broadcastBudget">>
                                ELSE <<>>)
                            \o <<"response">>,
              !.inFlight = @ - 1,
              !.status = 200]

\* Steps 7 and 8 (part_006 181-193) after a response whose cost is amount:
\* the cost is recorded, then the store is awaited or, for a query that
\* skips the cache, the answer is given.
ApiCharged(a, amount) ==
    LET a1 == [a EXCEPT !.costCalls = @ + 1, !.running = FALSE]
        after == StatusOf(Append(costs, [totalCost |-> amount, timestamp |-> now]),
                          config, "daily", now)
    IN  IF a.skipCache THEN ApiAnswer(a1, after.percentUsed)
        ELSE [a1 EXCEPT !.pc = "store"]

\* The run of the cascade step a.cascade.i is called (part_006 141-145):
\* a chat call is started when the provider of the step is registered.
ApiRun(a) ==
    LET step == a.decision.cascadeChain[a.cascade.i + 1]
    IN  IF step.provider \in api.providers
        THEN [a EXCEPT !.running = TRUE, !.providerCalls = @ + 1]
        ELSE [a EXCEPT !.running = FALSE]

\* Steps 3 to 6 (part_006 119-178) up to the first await.
ApiRoute(a) ==
    LET decision == routeQuery(a.query, IF emergencyModeActive THEN "emergency" ELSE "")
        a1 == [a EXCEPT !.decision = decision,
                        !.percentUsed = getStatus("daily").percentUsed]
    IN  IF decision.provider \notin api.providers THEN ApiCatch(a1, ProviderUnavailable)
        ELSE IF decision.strategy = "cascade" /\ decision.cascadeChain # <<>>
        THEN ApiRun([a1 EXCEPT !.pc = "cascade"])
        ELSE [a1 EXCEPT !.pc = "direct", !.providerCalls = @ + 1]

\* A step of the handler: the request goes to next; the budget tracker
\* records amount when charged; the artifacts of arts are recorded.
ApiCommit(next, charged, amount, arts) ==
    /\ api' = [api EXCEPT !.req = next]
    /\ IF charged
       THEN /\ RecordCost([totalCost |-> amount, timestamp |-> now])
            /\ lastOp' = OtherOp
            /\ UNCHANGED config
       ELSE UNCHANGED budgetVars
    /\ IF arts # <<>>
       THEN /\ artifacts' = ArtifactPush(artifacts, arts[1])
            /\ nartifacts' = nartifacts + 1
       ELSE UNCHANGED artifactVars
    /\ UNCHANGED <<reqs, nreqs, cascadeVars, clockVars, cacheVars, routerVars, providerVars, hubVars>>

\* The request arrives (part_006 59-83): 400 without content, else the
\* classification and the cache lookup, or the routing for a query that
\* skips the cache.
ApiStart(query, hasContent) ==
    LET a == api.req
        a1 == [a EXCEPT !.query = query, !.skipCache = shouldSkipCache(query),
                        !.inFlight = @ + 1]
    IN  /\ a.pc = "idle"
        /\ ApiCommit(IF ~hasContent
                     THEN [a EXCEPT !.pc = "done", !.status = 400,
                                    !.effects = <<"response">>]
                     ELSE IF a1.skipCache THEN ApiRoute(a1)
                     ELSE [a1 EXCEPT !.pc = "lookup"],
                     FALSE, 0, <<>>)

\* cache.lookup has answered (part_006 83-178).
ApiAfterLookup(outcome) ==
    LET a == api.req
    IN  /\ a.pc = "lookup"
        /\ ApiCommit(CASE outcome = "raise" -> ApiCatch(a, PlainError)
                       [] outcome = "hit" ->
                            [a EXCEPT !.pc = "done", !.cacheHit = TRUE,
                                      !.percentUsed = getStatus("daily").percentUsed,
                                      !.effects = <<"analytics.recordCacheHit",
                                                    "ws.broadcastEvent",
                                                    "metrics.recordQuery", "response">>,
                                      !.inFlight = @ - 1,
                                      !.status = 200]
                       [] OTHER -> ApiRoute(a),
                     FALSE, 0, <<>>)

\* The end of executeCascade in the handler (part_006 138-178): its
\* response is charged, or its Error is caught.
ApiCascadeEnd(a, c, amount, arts) ==
    CASE c.status = "returned" ->
           ApiCommit(ApiCharged([a EXCEPT !.cascade = Ended(c)], amount), TRUE, amount, arts)
      [] c.status = "thrown" ->
           ApiCommit(ApiCatch([a EXCEPT !.cascade = Ended(c), !.running = FALSE,
                                        !.terminal = "cascade"],
                              PlainError),
                     FALSE, 0, arts)
      [] OTHER -> ApiCommit(ApiRun([a EXCEPT !.cascade = c]), FALSE, 0, arts)

\* The chat call of a cascade step has answered and quickScore scored it
\* (smart-router.ts 320-348, part_006 146-172): onStep records the step.
ApiCascadeStepOk(quality, amount) ==
    LET a == api.req
        ch == a.decision.cascadeChain
        c == CascadeIterOk(a.cascade, ch, quality)
        threshold == ch[a.cascade.i + 1].qualityThreshold
        art == Artifact(CascadeStepType(a.cascade.i + 2 <= Len(ch), quality, threshold),
                        1, nartifacts + 1, quality, threshold)
    IN  /\ a.pc = "cascade"
        /\ a.running
        /\ ApiCascadeEnd([a EXCEPT !.effects =
                              IF a.cascade.i + 2 <= Len(ch)
                              THEN Append(@, "metrics.recordEscalation") ELSE @],
                         c, amount, <<art>>)

\* The run of a cascade step has raised (smart-router.ts 349-369): its
\* chat call failed after its retries, or its provider is not registered.
ApiCascadeStepFail(amount) ==
    LET a == api.req
    IN  /\ a.pc = "cascade"
        /\ ApiCascadeEnd(a, CascadeIterFail(a.cascade, a.decision.cascadeChain),
                         amount, <<>>)

\* The direct chat call has answered, or has thrown err after its retries
\* (part_006 173-193).
ApiDirectDone(ok, err, amount) ==
    LET a == api.req
    IN  /\ a.pc = "direct"
        /\ err \in TerminalChatErrors(a.decision.provider, a.decision.model)
        /\ IF ok THEN ApiCommit(ApiCharged(a, amount), TRUE, amount, <<>>)
           ELSE ApiCommit(ApiCatch([a EXCEPT !.terminal = "direct"], err),
                          FALSE, 0, <<>>)

\* cache.store has answered (part_006 189-253): an exception of the cache
\* adapter is caught as any other.
ApiAfterStore(storeOk) ==
    LET a == api.req
    IN  /\ a.pc = "store"
        /\ ApiCommit(IF storeOk THEN ApiAnswer(a, getStatus("daily").percentUsed)
                     ELSE ApiCatch(a, PlainError),
                     FALSE, 0, <<>>)

(***************************************************************************)
(* WebSocket hub: gateway/websocket.ts and its secured variant             *)
(* (src/unnamed/part_007), which checks headers, rate limit and token      *)
(* before the handshake.  The hub clock counts ticks of 30 seconds.        *)
(***************************************************************************)
\* The options of the RateLimiterMemory (part_007 34-38): points, and
\* duration (60 s) and blockDuration (300 s) in ticks.
points == 10
duration == 2
blockDuration == 10

\* Channel (websocket.ts 16).
Channels == {"events", "health", "budget", "cache"}

\* The channel of a subscribe or unsubscribe message: "" is a message
\* without one, "alerts" is not a Channel.
MessageChannels == {"events", "alerts", ""}

MessageTypes == {"subscribe", "unsubscribe", "ping"}

IPs == {"10.0.0.1"}

\* The record a key has in the limiter: none, or expired, reads as this.
NoPoints == [value |-> 0, expiresAt |-> 0]

NoLast ==
    [op |-> "", id |-> 0, channel |-> "", recipients |-> {}, outcome |-> "",
     time |-> 0, exhaustedAt |-> Null]

\* A hub before attach.
NewHub(secured) ==
    [ secured |-> secured,
      time |-> 0,
      sockets |-> <<>>,         \* every socket accepted, by client id
      clients |-> <<>>,         \* the Map clients, in insertion order
      limiter |-> [ip \in IPs |-> NoPoints],
      exhaustedAt |-> [ip \in IPs |-> Null],    \* when ip used its last point
      window |-> [prev |-> 0, cur |-> 0],       \* handshakes in the last and in this tick
      attempts |-> 0,
      beats |-> 0,
      last |-> NoLast ]

\* RateLimiterMemory.consume(key) of rate-limiter-flexible at time t: the
\* points consumed in the window that began with the first one, a block
\* of blockDuration set by the first consumption above points.
Consume(rec, t) ==
    LET live == rec.value > 0 /\ rec.expiresAt > t
        res == IF live THEN [rec EXCEPT !.value = @ + 1]
               ELSE [value |-> 1, expiresAt |-> t + duration]
    IN  IF res.value > points
        THEN [ok |-> FALSE,
              rec |-> IF blockDuration > 0 /\ res.value <= points + 1
                      THEN [res EXCEPT !.expiresAt = t + blockDuration]
                      ELSE res]
        ELSE [ok |-> TRUE, rec |-> res]

\* A broadcast that looks at the socket alone.
Receives_anyChannel(client, socket, channel) == socket.readyState = "OPEN"

\* The test of broadcast (websocket.ts 126).
Receives(client, socket, channel) ==
    channel \in client.channels /\ socket.readyState = "OPEN"

\* The clients of the Map other than id (Map.delete).
MapDelete(clients, id) == SelectSeq(clients, LAMBDA c : c.id # id)

\* The position of client id in the Map, 0 when it is not there.
MapIndex(clients, id) ==
    IF \E k \in 1..Len(clients) : clients[k].id = id
    THEN CHOOSE k \in 1..Len(clients) : clients[k].id = id
    ELSE 0

\* The handler of "connection" (websocket.ts 36-54): the client is put in
\* the Map with all four channels and is sent the welcome.
Connected(h, ip) ==
    LET clientId == Len(h.sockets) + 1
    IN  [h EXCEPT
          !.sockets = Append(@, [ip |-> ip, readyState |-> "OPEN",
                                 asked |-> Channels,    \* what the client asked for
                                 unanswered |-> 0]),    \* pings it has not answered
          !.clients = Append(@, [id |-> clientId, channels |-> Channels])]

\* The outcome of an upgrade request (part_007 107-157); the hub of
\* websocket.ts hands every request to the WebSocketServer (33-34).
Upgrade(h, ip, headersOk, tokenOk) ==
    LET c == Consume(h.limiter[ip], h.time)
        limited == [h EXCEPT !.limiter[ip] = c.rec]
    IN  IF ~h.secured
        THEN IF headersOk THEN [hub |-> Connected(h, ip), outcome |-> "101"]
             ELSE [hub |-> h, outcome |-> "400"]
        ELSE IF ~headersOk THEN [hub |-> h, outcome |-> "400"]
        ELSE IF ~c.ok THEN [hub |-> limited, outcome |-> "429"]
        ELSE IF ~tokenOk THEN [hub |-> limited, outcome |-> "401"]
        ELSE [hub |-> Connected(limited, ip), outcome |-> "101"]

\* An upgrade request arrives from ip, the hub having seen fewer than
\* limit of them.
ConnectAt(ip, headersOk, tokenOk, limit) ==
    LET u == Upgrade(hub, ip, headersOk, tokenOk)
        accepted == u.outcome = "101"
        spent == hub.secured /\ u.hub.limiter[ip].value = points /\ u.outcome # "400"
    IN  /\ hub.attempts < limit
        /\ hub' = [u.hub EXCEPT
              !.attempts = @ + 1,
              !.window.cur = IF accepted THEN @ + 1 ELSE @,
              !.exhaustedAt[ip] = IF spent THEN hub.time ELSE @,
              !.last = [NoLast EXCEPT !.op = "upgrade", !.outcome = u.outcome,
                                      !.id = IF accepted THEN Len(u.hub.sockets) ELSE 0,
                                      !.time = hub.time,
                                      !.exhaustedAt = hub.exhaustedAt[ip]]]
        /\ UNCHANGED <<cascadeVars, budgetVars, clockVars, cacheVars, managerVars,
                       routerVars, providerVars, apiVars>>

\* Thirty seconds pass.
HubTick(limit) ==
    /\ hub.time < limit
    /\ hub' = [hub EXCEPT !.time = @ + 1,
                          !.window = [prev |-> hub.window.cur, cur |-> 0],
                          !.last = [NoLast EXCEPT !.op = "tick"]]
    /\ UNCHANGED <<cascadeVars, budgetVars, clockVars, cacheVars, managerVars,
                   routerVars, providerVars, apiVars>>

\* handleMessage (websocket.ts 94-117) for a message of client id; the
\* closure of the socket holds the client whether or not the Map does.
HandleMessage(id, type, channel) ==
    LET k == MapIndex(hub.clients, id)
        asked == CASE type = "subscribe" /\ channel # "" ->
                        hub.sockets[id].asked \cup {channel}
                   [] type = "unsubscribe" /\ channel # "" ->
                        hub.sockets[id].asked \ {channel}
                   [] OTHER -> hub.sockets[id].asked
        channels(old) == CASE type = "subscribe" /\ channel # "" -> old \cup {channel}
                           [] type = "unsubscribe" /\ channel # "" -> old \ {channel}
                           [] OTHER -> old
    IN  /\ id \in 1..Len(hub.sockets)
        /\ hub.sockets[id].readyState = "OPEN"
        /\ hub' = [hub EXCEPT
              !.sockets[id].asked = asked,
              !.clients = IF k = 0 THEN @
                          ELSE [@ EXCEPT ![k].channels = channels(@)],
              !.last = [NoLast EXCEPT !.op = type, !.id = id, !.channel = channel]]
        /\ UNCHANGED <<cascadeVars, budgetVars, clockVars, cacheVars, managerVars,
                       routerVars, providerVars, apiVars>>

\* The client answers the pings it got; the handler of "pong" does
\* nothing (websocket.ts 74-77).
Pong(id) ==
    /\ id \in 1..Len(hub.sockets)
    /\ hub.sockets[id].readyState = "OPEN"
    /\ hub.sockets[id].unanswered > 0
    /\ hub' = [hub EXCEPT !.sockets[id].unanswered = 0,
                          !.last = [NoLast EXCEPT !.op = "pong", !.id = id]]
    /\ UNCHANGED <<cascadeVars, budgetVars, clockVars, cacheVars, managerVars,
                   routerVars, providerVars, apiVars>>

\* The closing handshake of socket id has begun: it is no longer OPEN.
SocketClosing(id) ==
    /\ id \in 1..Len(hub.sockets)
    /\ hub.sockets[id].readyState = "OPEN"
    /\ hub' = [hub EXCEPT !.sockets[id].readyState = "CLOSING",
                          !.last = [NoLast EXCEPT !.op = "closing", !.id = id]]
    /\ UNCHANGED <<cascadeVars, budgetVars, clockVars, cacheVars, managerVars,
                   routerVars, providerVars, apiVars>>

\* Socket id is closed and the handler of "close" runs (websocket.ts
\* 65-68).
SocketClosed(id) ==
    /\ id \in 1..Len(hub.sockets)
    /\ hub.sockets[id].readyState # "CLOSED"
    /\ hub' = [hub EXCEPT !.sockets[id].readyState = "CLOSED",
                          !.clients = MapDelete(@, id),
                          !.last = [NoLast EXCEPT !.op = "close", !.id = id]]
    /\ UNCHANGED <<cascadeVars, budgetVars, clockVars, cacheVars, managerVars,
                   routerVars, providerVars, apiVars>>

\* The sockets after the pings of a heartbeat.
Pinged(h) ==
    [id \in 1..Len(h.sockets) |->
        IF MapIndex(h.clients, id) # 0 /\ h.sockets[id].readyState = "OPEN"
        THEN [h.sockets[id] EXCEPT !.unanswered = @ + 1]
        ELSE h.sockets[id]]

\* The callback of the heartbeat interval (websocket.ts 81-89).
Heartbeat ==
    /\ hub.beats < MaxBeats
    /\ hub' = [hub EXCEPT
          !.beats = @ + 1,
          !.sockets = Pinged(hub),
          !.clients = SelectSeq(@, LAMBDA c : hub.sockets[c.id].readyState = "OPEN"),
          !.last = [NoLast EXCEPT !.op = "heartbeat"]]
    /\ UNCHANGED <<cascadeVars, budgetVars, clockVars, cacheVars, managerVars,
                   routerVars, providerVars, apiVars>>

\* broadcast (websocket.ts 122-130).
Broadcast(channel) ==
    /\ hub' = [hub EXCEPT
          !.last = [NoLast EXCEPT
              !.op = "broadcast", !.channel = channel,
              !.recipients = { hub.clients[k].id : k \in
                                 { j \in 1..Len(hub.clients) :
                                     Receives(hub.clients[j],
                                              hub.sockets[hub.clients[j].id],
                                              channel) } }]]
    /\ UNCHANGED <<cascadeVars, budgetVars, clockVars, cacheVars, managerVars,
                   routerVars, providerVars, apiVars>>

(***************************************************************************)
(* Initial states and specifications.                                      *)
(***************************************************************************)
CascadeIdle ==
    /\ chain = <<[qualityThreshold |-> 0]>>
    /\ cs = CascadeStart
    /\ outcomes = <<>>

BudgetIdle ==
    /\ costs = <<>>
    /\ config \in InitialConfigs
    /\ emergencyModeActive = FALSE
    /\ alertsFired = {}
    /\ fireCalls = <<>>
    /\ recorded = <<>>
    /\ lastOp = OtherOp

ClockIdle ==
    /\ now = 0
    /\ clockSteps = 0

RouterIdle == routed = NoRouted /\ priced = NoPriced /\ estimate = NoEstimate

\* new OpenAIProvider(apiKey) and its like (providers/base.ts 53-69).
ProviderIdle(name) ==
    chats = [name |-> name,
             health |-> [status |-> "healthy", totalRequests |-> 0, totalErrors |-> 0],
             calls |-> [c \in 1..MaxChats |-> IdleChat]]

\* createRouter(providers) (part_006 45-55).
ApiIdle == \E providers \in ProviderMaps : api = [providers |-> providers, req |-> IdleApi]

HubIdle == hub = NewHub(FALSE)

ManagerIdle ==
    /\ RouterIdle
    /\ HubIdle
    /\ api = [providers |-> Providers, req |-> IdleApi]
    /\ ProviderIdle("openai")
    /\ reqs = [r \in RequestIds |-> IdleReq]
    /\ nreqs = 0
    /\ artifacts = <<>>
    /\ nartifacts = 0

CacheIdle ==
    /\ store = <<>>
    /\ heap = [e \in OpIds |-> NoEntry]
    /\ ops = [p \in OpIds |-> IdleOp]
    /\ nops = 0
    /\ hits = [e \in OpIds |-> 0]
    /\ disturbed = [e \in OpIds |-> FALSE]

\* executeCascade alone, over every chain of the model.
CascadeInit ==
    /\ chain \in Chains
    /\ cs = CascadeStart
    /\ outcomes = <<>>
    /\ BudgetIdle /\ config.emergencyMode.enabled
    /\ ClockIdle
    /\ CacheIdle /\ adapterKind = "memory"
    /\ ManagerIdle

CascadeNext ==
    \/ \E q \in Qualities : CascadeRunOk(q)
    \/ CascadeRunFail

SpecCascade == CascadeInit /\ [][CascadeNext]_vars

\* The budget tracker alone.
BudgetInit ==
    /\ CascadeIdle
    /\ BudgetIdle
    /\ ClockIdle
    /\ CacheIdle /\ adapterKind = "memory"
    /\ ManagerIdle

BudgetNext ==
    \/ \E a \in CostValues : BudgetRecordCost(a)
    \/ \E b \in BOOLEAN : BudgetSetEmergencyMode(b)
    \/ \E u \in ConfigUpdates : BudgetUpdateConfig(u)
    \/ BudgetPrune
    \/ \E p \in Periods : BudgetGetStatus(p)
    \/ BudgetResetAlerts
    \/ \E d \in ClockDeltas : ClockAdvance(d)

SpecBudget == BudgetInit /\ [][BudgetNext]_vars

\* The semantic cache alone, over either adapter, with concurrent calls.
CacheInit ==
    /\ CascadeIdle
    /\ BudgetIdle /\ config.emergencyMode.enabled
    /\ ClockIdle
    /\ CacheIdle
    /\ adapterKind \in {"memory", "redis"}
    /\ ManagerIdle

CacheNext ==
    \/ \E q \in Queries : LookupStart(q)
    \/ \E p \in 1..MaxOps : LookupCheck(p)
    \/ \E p \in 1..MaxOps : LookupReturnHit(p)
    \/ \E p \in 1..MaxOps : LookupScan(p)
    \/ \E q \in Queries, ttl \in Ttls : StoreStart(q, ttl)
    \/ \E p \in 1..MaxOps : StoreAfterSize(p)
    \/ \E p \in 1..MaxOps : StoreEvict(p)
    \/ \E p \in 1..MaxOps : StoreDeleted(p)
    \/ \E p \in 1..MaxOps : StoreReturn(p)
    \/ \E q \in Queries : RedisExpire(hashString(q))
    \/ CacheTick

SpecCache == CacheInit /\ [][CacheNext]_vars

\* The cache used with one text that does not expire: stores of it and
\* lookups of it, one call more than in SpecCache.
OneTextNext ==
    \/ LookupBegin(QueryA, MaxOps + 1)
    \/ StoreBegin(QueryA, MaxTicks + 1, MaxOps + 1)
    \/ \E p \in OpIds : LookupCheck(p)
    \/ \E p \in OpIds : LookupReturnHit(p)
    \/ \E p \in OpIds : LookupScan(p)
    \/ \E p \in OpIds : StoreAfterSize(p)
    \/ \E p \in OpIds : StoreReturn(p)

SpecCacheOneText == CacheInit /\ [][OneTextNext]_vars

\* The cache with its maintenance: stores and lookups of two texts while
\* clear and pruneExpired run.
MaintenanceNext ==
    \/ LookupBegin(QueryA, MaxOps)
    \/ \E p \in 1..MaxOps : LookupCheck(p)
    \/ \E p \in 1..MaxOps : LookupReturnHit(p)
    \/ \E p \in 1..MaxOps : LookupScan(p)
    \/ \E q \in {QueryA, QueryD}, ttl \in Ttls : StoreBegin(q, ttl, MaxOps)
    \/ \E p \in 1..MaxOps : StoreAfterSize(p)
    \/ \E p \in 1..MaxOps : StoreEvict(p)
    \/ \E p \in 1..MaxOps : StoreDeleted(p)
    \/ \E p \in 1..MaxOps : StoreReturn(p)
    \/ ClearStart
    \/ \E p \in 1..MaxOps : ClearKeys(p)
    \/ \E p \in 1..MaxOps : ClearDel(p)
    \/ \E p \in 1..MaxOps : ClearReturn(p)
    \/ PruneStart
    \/ \E p \in 1..MaxOps : PruneListed(p)
    \/ \E p \in 1..MaxOps : PruneDeleted(p)
    \/ \E p \in 1..MaxOps : PruneSized(p)
    \/ \E q \in {QueryA, QueryD} : RedisExpire(hashString(q))
    \/ CacheTick

SpecCacheMaintenance == CacheInit /\ [][MaintenanceNext]_vars

\* Another caller of the tracker records the first cost it holds.
ExternalRecordCost(amount) ==
    /\ recorded = <<>>
    /\ BudgetRecordCost(amount)

\* Concurrent processQuery calls over one budget tracker and one artifact
\* manager, while the clock runs and other callers record costs.
ManagerInit ==
    /\ CascadeIdle
    /\ BudgetIdle
    /\ ClockIdle
    /\ CacheIdle /\ adapterKind = "memory"
    /\ ManagerIdle

ManagerNext ==
    \/ \E classification \in Classifications : ReqStart(classification)
    \/ \E r \in 1..MaxRequests, outcome \in LookupOutcomes, entry \in CachedEntries,
          query \in ManagerQueries :
          ReqAfterLookup(r, outcome, entry, query)
    \/ \E r \in 1..MaxRequests, quality \in ResponseQualities, tokens \in ResponseTokens :
          ReqCascadeStepOk(r, quality, tokens)
    \/ \E r \in 1..MaxRequests : ReqCascadeStepFail(r)
    \/ \E r \in 1..MaxRequests, ok \in BOOLEAN, tokens \in ResponseTokens,
          response \in ChatResponses, report \in QualityReports \ {NoReport} :
          ReqDirectDone(r, ok, tokens, response, report)
    \/ \E r \in 1..MaxRequests, storeOk \in BOOLEAN : ReqReturn(r, storeOk)
    \/ \E amount \in ResponseCosts : ExternalRecordCost(amount)
    \/ ClockAdvance(TicksPerDay)

SpecManager == ManagerInit /\ [][ManagerNext]_vars

\* Two processQuery calls in flight at once over one budget tracker, with
\* nothing else recording costs and the clock standing still: the queries
\* are routed to SIMPLE_CASCADE, or rejected by the budget gate.
ConcurrentNext ==
    \/ ReqBegin([isRealtime |-> FALSE, intent |-> "chat"], MaxRequests + 1)
    \/ \E r \in RequestIds, outcome \in {"hit", "miss"} :
          \E query \in { q \in ManagerQueries : q.complexity = "simple" } :
              ReqAfterLookup(r, outcome, [cost |-> 4, tokensUsed |-> 1], query)
    \/ \E r \in RequestIds, quality \in ResponseQualities, tokens \in ResponseTokens :
          ReqCascadeStepOk(r, quality, tokens)
    \/ \E r \in RequestIds : ReqCascadeStepFail(r)
    \/ \E r \in RequestIds, storeOk \in BOOLEAN : ReqReturn(r, storeOk)

SpecConcurrent == ManagerInit /\ [][ConcurrentNext]_vars

\* The artifact manager alone, constructed with a small capacity
\* (new ArtifactManager(ArtifactCapacity)), its record* methods called by
\* any callers.
ArtifactsInit == ManagerInit

ArtifactsNext ==
    \/ \E type \in ArtifactTypes, queryId \in QueryIds : ArtifactRecord(type, queryId)
    \/ \E id \in 1..(MaxRecorded + 1), response \in ChatResponses,
          report \in QualityReports : ArtifactEnrich(id, response, report)

SpecArtifacts == ArtifactsInit /\ [][ArtifactsNext]_vars

\* The router over the budget tracker, under every list of disabled
\* providers.
RouterConfigs ==
    { [c EXCEPT !.emergencyMode.disableProviders = d] :
        c \in InitialConfigs, d \in SUBSET Providers }

RouterInit ==
    /\ CascadeIdle
    /\ costs = <<>>
    /\ config \in RouterConfigs
    /\ emergencyModeActive = FALSE
    /\ alertsFired = {}
    /\ fireCalls = <<>>
    /\ recorded = <<>>
    /\ lastOp = OtherOp
    /\ ClockIdle
    /\ CacheIdle /\ adapterKind = "memory"
    /\ ManagerIdle

RouterNext ==
    \/ \E query \in ClassifiedQueries, configured \in Strategies :
          RouteQuery(query, configured)
    \/ \E a \in CostValues : BudgetRecordCost(a)
    \/ \E b \in BOOLEAN : BudgetSetEmergencyMode(b)

SpecRouter == RouterInit /\ [][RouterNext]_vars

\* The provider adapters and the cost calculator, over every model an
\* adapter serves.
CostBookInit == ManagerInit

CostBookNext ==
    \E provider \in Adapters, input \in TokenCounts, output \in TokenCounts :
        \E model \in getAvailableModels(provider) :
            ProviderRespond(provider, model, input, output)

SpecCostBook == CostBookInit /\ [][CostBookNext]_vars

\* One POST /api/query request over the budget tracker, while another
\* caller of the tracker records a cost.
ApiInit ==
    /\ CascadeIdle /\ BudgetIdle /\ ClockIdle
    /\ CacheIdle /\ adapterKind = "memory"
    /\ RouterIdle
    /\ ProviderIdle("openai")
    /\ reqs = [r \in RequestIds |-> IdleReq]
    /\ nreqs = 0
    /\ artifacts = <<>>
    /\ nartifacts = 0
    /\ HubIdle
    /\ ApiIdle

ApiNext ==
    \/ \E query \in ApiQueries, hasContent \in BOOLEAN : ApiStart(query, hasContent)
    \/ \E outcome \in LookupOutcomes : ApiAfterLookup(outcome)
    \/ \E quality \in ResponseQualities, amount \in ResponseCosts :
          ApiCascadeStepOk(quality, amount)
    \/ \E amount \in ResponseCosts : ApiCascadeStepFail(amount)
    \/ \E ok \in BOOLEAN, amount \in ResponseCosts :
          \E err \in TerminalChatErrors(api.req.decision.provider, api.req.decision.model) :
              ApiDirectDone(ok, err, amount)
    \/ \E storeOk \in BOOLEAN : ApiAfterStore(storeOk)
    \/ \E amount \in ResponseCosts : ExternalRecordCost(amount)

SpecApi == ApiInit /\ [][ApiNext]_vars

\* The hub of either variant with a few clients: their messages, their
\* pongs, their closing, the heartbeat and the broadcasts.
HubInit ==
    /\ CascadeIdle /\ BudgetIdle /\ config.emergencyMode.enabled /\ ClockIdle
    /\ CacheIdle /\ adapterKind = "memory"
    /\ RouterIdle
    /\ ProviderIdle("openai")
    /\ reqs = [r \in RequestIds |-> IdleReq]
    /\ nreqs = 0
    /\ artifacts = <<>>
    /\ nartifacts = 0
    /\ api = [providers |-> Providers, req |-> IdleApi]
    /\ \E secured \in BOOLEAN : hub = NewHub(secured)

HubNext ==
    \/ \E ip \in IPs : ConnectAt(ip, TRUE, TRUE, MaxClients)
    \/ \E id \in 1..MaxClients, type \in MessageTypes, channel \in MessageChannels :
          HandleMessage(id, type, channel)
    \/ \E id \in 1..MaxClients : Pong(id)
    \/ \E id \in 1..MaxClients : SocketClosing(id)
    \/ \E id \in 1..MaxClients : SocketClosed(id)
    \/ Heartbeat
    \/ \E channel \in {"events", "budget"} : Broadcast(channel)

SpecHub == HubInit /\ [][HubNext]_vars

\* The upgrade requests of one source IP over time.
UpgradeNext ==
    \/ \E ip \in IPs, headersOk \in BOOLEAN, tokenOk \in BOOLEAN :
          ConnectAt(ip, headersOk, tokenOk, MaxAttempts)
    \/ HubTick(MaxHubTime)

SpecUpgrade == HubInit /\ [][UpgradeNext]_vars

\* One provider adapter under concurrent chat calls.
ChatInit ==
    /\ CascadeIdle /\ BudgetIdle /\ ClockIdle
    /\ CacheIdle /\ adapterKind = "memory"
    /\ RouterIdle
    /\ reqs = [r \in RequestIds |-> IdleReq]
    /\ nreqs = 0
    /\ artifacts = <<>>
    /\ nartifacts = 0
    /\ \E name \in Adapters : ProviderIdle(name)
    /\ HubIdle
    /\ api = [providers |-> Providers, req |-> IdleApi]

ChatNext ==
    \/ \E name \in Adapters : \E model \in getAvailableModels(name) :
          chats.name = name /\ ChatBegin(model)
    \/ \E c \in 1..MaxChats : ChatAttemptOk(c)
    \/ \E c \in 1..MaxChats, name \in Adapters, model \in ModelNames :
          \E err \in ChatErrors(name, model) : ChatAttemptFail(c, err)
    \/ \E c \in 1..MaxChats : ChatWake(c)

SpecChat == ChatInit /\ [][ChatNext]_vars

\* estimateCost alone, over every provider and model name.
EstimateInit == ManagerInit

EstimateNext ==
    \E provider \in Providers, model \in ModelNames,
       input \in TokenCounts, output \in TokenCounts :
       EstimateCost(provider, model, input, output)

SpecEstimate == EstimateInit /\ [][EstimateNext]_vars

(***************************************************************************)
(* Properties of executeCascade.                                           *)
(***************************************************************************)
\* Steps (numbered from 0) tried so far whose run succeeded.
Succeeded == { i \in 0..(Len(outcomes) - 1) : outcomes[i + 1].ok }

\* Steps tried so far whose score met the threshold of the step.
MetThreshold ==
    { i \in Succeeded : outcomes[i + 1].quality >= chain[i + 1].qualityThreshold }

C2_ThrowsOnlyWhenAllFailed ==
    cs.status = "thrown" => Succeeded = {}

(***************************************************************************)
(* Properties of the budget tracker.                                       *)
(***************************************************************************)
\* C4 as stated: once the latch is true, every call but resetAlerts()
\* leaves it true.
C4_LatchUntilReset ==
    [][(emergencyModeActive /\ lastOp'.op # "resetAlerts")
          => emergencyModeActive']_vars

\* C4 amended: once the latch is true, every call but resetAlerts() and
\* setEmergencyMode(false) leaves it true.
C4_LatchUntilResetOrForcedOff ==
    [][(/\ emergencyModeActive
        /\ lastOp'.op # "resetAlerts"
        /\ ~(lastOp'.op = "setEmergencyMode" /\ lastOp'.arg = FALSE))
          => emergencyModeActive']_vars

\* The latch is still true after updateConfig raised the daily limit and
\* re-checked the alerts with nothing left to fire.
C4_Witness ==
    /\ emergencyModeActive
    /\ lastOp = OtherOp
    /\ config.dailyLimit = 40000
    /\ alertsFired = {}
    /\ costs # <<>>

\* The percentages of the thresholds whose action is emergency_mode.
EmergencyPercentages(cfg) ==
    { cfg.alertThresholds[k].percentage : k \in
        { n \in 1..Len(cfg.alertThresholds) :
            cfg.alertThresholds[n].action = "emergency_mode" } }

\* C5: with emergency mode enabled, a recordCost that finds the latch false
\* and raises the daily percentUsed from below the percentage of an
\* emergency_mode threshold to at or above it leaves the latch true.
C5_CrossingLatches ==
    [][(/\ Len(recorded') = Len(recorded) + 1
        /\ config.emergencyMode.enabled
        /\ ~emergencyModeActive
        /\ \E pct \in EmergencyPercentages(config) :
              /\ StatusOf(costs, config, "daily", now).percentUsed < pct * 100
              /\ StatusOf(costs', config', "daily", now').percentUsed >= pct * 100)
          => emergencyModeActive']_vars

\* The exact sum of the costs ever recorded whose timestamp lies in [a, b).
RECURSIVE SumRecorded(_, _, _)
SumRecorded(k, a, b) ==
    IF k = 0 THEN 0
    ELSE (IF a <= recorded[k].timestamp /\ recorded[k].timestamp < b
          THEN recorded[k].totalCost ELSE 0) + SumRecorded(k - 1, a, b)

\* C6: for each period, getStatus(period).spent is the sum of totalCost
\* over every cost ever recorded whose timestamp lies in
\* [periodStart, periodEnd), rounded to the micro-USD.
C6_SpentIsPeriodSum ==
    \A p \in Periods :
        LET st == getStatus(p)
            exact == SumRecorded(Len(recorded), st.periodStart, st.periodEnd)
        IN  /\ st.spent % 10 = 0
            /\ st.spent - exact <= 5
            /\ exact - st.spent < 5
            /\ st.periodStart <= now /\ now < st.periodEnd

\* prune has dropped a recorded cost and the month has spend that rounds.
C6_Witness ==
    /\ Len(costs) < Len(recorded)
    /\ getStatus("monthly").spent > 0
    /\ getStatus("monthly").spent # SumRecorded(Len(recorded),
           getStatus("monthly").periodStart, getStatus("monthly").periodEnd)

\* The lookups that have decided on a hit and return it once adapter.set
\* has answered.
PendingHits ==
    { p \in OpIds : ops[p].kind = "lookup" /\ ops[p].pc \in {"exactSet", "semSet"} }

\* C7: lookup never returns as a hit an entry that is expired: the entry a
\* lookup returns, through the exact-hash path or through the semantic
\* path, expires after the clock reading the lookup took for it.
C7_NoExpiredHit ==
    \A p \in PendingHits :
        /\ ops[p].hit
        /\ ops[p].entry.expiresAt > ops[p].lnow

\* A semantic hit on a live entry by a lookup whose own key holds an expired
\* entry, which the exact path passed over.
C7_Witness ==
    \E p \in PendingHits :
        /\ ops[p].pc = "semSet"
        /\ \E i \in 1..Len(ops[p].snap) :
              /\ Data(ops[p].snap[i]).queryHash = ops[p].hash
              /\ Data(ops[p].snap[i]).expiresAt <= ops[p].lnow

\* C8: a lookup of the queryText of an entry that was in the cache when the
\* lookup read it, and that has not expired when the lookup tests it,
\* returns that entry as a hit with similarity at least 0.99.
C8_StoredTextIsFound ==
    [][\A p \in 1..MaxOps :
          (/\ ops[p].kind = "lookup"
           /\ ops[p].pc # "got"
           /\ ops[p].liveAtCheck
           /\ ops'[p].pc = "done")
          => /\ p \in PendingHits
             /\ ops[p].hit
             /\ SimAtLeast(ops[p].similarity, 99)
             /\ ops[p].entry.eid = ops[p].sameText.eid]_vars

\* A lookup of a stored text is about to return the entry in the last
\* second of its life, after earlier hits on it.
C8_Witness ==
    \E p \in PendingHits :
        /\ ops[p].liveAtCheck
        /\ ops[p].entry.queryText = ops[p].query
        /\ ops[p].entry.expiresAt = ops[p].lnow + 1
        /\ ops[p].entry.hitCount >= 2

\* C9: the adapter never holds more than maxEntries entries, under any
\* interleaving of concurrent store and lookup calls.
C9_SizeWithinMax == Len(store) <= maxEntries

\* C10: the persisted hitCount of an entry that was neither evicted nor
\* overwritten equals the number of lookups that hit it, once those lookups
\* have returned, over either adapter.
C10_HitCountCountsHits ==
    \A i \in 1..Len(store) :
        (/\ ~disturbed[store[i].eid]
         /\ \A p \in PendingHits : ops[p].h.eid # store[i].eid)
        => Data(AdapterEntries(store)[i]).hitCount = hits[store[i].eid]

RECURSIVE CountType(_, _, _)
CountType(list, type, r) ==
    IF list = <<>> THEN 0
    ELSE (IF Head(list).type = type /\ Head(list).queryId = r THEN 1 ELSE 0)
            + CountType(Tail(list), type, r)

\* C3: a processQuery whose cache lookup gave no hit and whose reading of the
\* daily budget status has percentUsed >= 100 records exactly one
\* budget_reject artifact, fails with BudgetExceeded (status 429), and makes
\* no provider call and no recordCost call.
C3_BudgetGateRejects ==
    \A r \in 1..MaxRequests :
        (reqs[r].lookup = "miss" /\ reqs[r].percentUsed >= 10000)
        => /\ reqs[r].result = "threw"
           /\ reqs[r].error.code = "BUDGET_EXCEEDED"
           /\ reqs[r].error.statusCode = 429
           /\ CountType(artifacts, "budget_reject", r) = 1
           /\ CountType(reqs[r].generatedArtifacts, "budget_reject", r) = 1
           /\ Len(reqs[r].generatedArtifacts) = 1
           /\ reqs[r].providerCalls = 0
           /\ reqs[r].costCalls = 0

\* A request is rejected at exactly 100 percent of the daily limit, spent
\* by a cost recorded on the second day, while the request awaited its lookup.
C3_Witness ==
    \E r \in 1..MaxRequests :
        /\ reqs[r].result = "threw"
        /\ reqs[r].lookup = "miss"
        /\ reqs[r].percentUsed = 10000
        /\ Len(recorded) = 1
        /\ recorded[1].timestamp > 0

\* The hitCount the adapter holds for the i-th entry of st, the objects of
\* a MemoryAdapter being hp.
PersistedHitCount(st, hp, i) ==
    IF IsMemory THEN hp[st[i].eid].hitCount ELSE st[i].val.hitCount

\* C11: while an entry stays stored under its key (the same entry before
\* and after a step), its persisted hitCount never decreases.
C11_HitCountMonotonic ==
    [][\A i \in 1..Len(store) : \A j \in 1..Len(store') :
          (store[i].key = store'[j].key /\ store[i].eid = store'[j].eid)
          => PersistedHitCount(store', heap', j) >= PersistedHitCount(store, heap, i)]_vars

\* C12: a processQuery whose classification makes shouldSkipCache true
\* performs no cache lookup and does not return a cache hit.
C12_SkipMeansNoLookup ==
    \A r \in 1..MaxRequests :
        shouldSkipCache(reqs[r].classification)
        => reqs[r].lookupCalls = 0 /\ ~reqs[r].cacheHit

\* C13: an exception of the cache adapter during lookup does not make
\* processQuery fail: the lookup counts as a miss.
C13_LookupFailureIsMiss ==
    \A r \in 1..MaxRequests :
        reqs[r].lookup = "raise" => reqs[r].result # "threw"

FirstTypes == {"cache_hit", "budget_reject", "route_decision"}
CascadeTypes == {"cascade_escalation", "cascade_success", "cascade_failure"}

\* The positions of seq s whose artifact has a type of set T.
OfTypes(s, T) == {i \in 1..Len(s) : s[i].type \in T}

\* What C14 asks of the artifacts the store holds for request r.
OneFirstArtifact(r) ==
    LET held == getByQueryId(r)
        first == OfTypes(held, FirstTypes)
    IN  /\ Cardinality(first) = 1
        /\ \A i \in first : \A j \in OfTypes(held, CascadeTypes) :
              held[i].id < held[j].id
        /\ \A i \in 1..Len(reqs[r].generatedArtifacts) :
              reqs[r].generatedArtifacts[i].queryId = r

\* C14: for every request processQuery has handled, exactly one artifact of
\* type cache_hit, budget_reject or route_decision is recorded, before any
\* cascade_* artifact of the request, and the artifacts of the request
\* carry its queryId.
C14_OneFirstArtifact ==
    \A r \in 1..MaxRequests : reqs[r].pc = "done" => OneFirstArtifact(r)

\* The same for the requests whose cache lookup answered.
C14_WhenLookupAnswers ==
    \A r \in 1..MaxRequests :
        (reqs[r].pc = "done" /\ reqs[r].lookup # "raise") => OneFirstArtifact(r)

\* C15: for a queryId, getByQueryId presents the artifacts in the order
\* they were produced: earlier artifacts before later ones.
C15_StoreInProductionOrder ==
    \A r \in 1..MaxRequests :
        LET held == getByQueryId(r)
        IN  \A i \in 1..Len(held) : \A j \in 1..Len(held) :
                i < j => held[i].id < held[j].id

\* C16: a processQuery served from the cache makes no provider call,
\* records no cost, records no route_decision artifact, and returns a
\* response of cost 0 and input tokens 0.
C16_CacheHitIsFree ==
    \A r \in 1..MaxRequests :
        reqs[r].cacheHit =>
            /\ reqs[r].result = "returned"
            /\ reqs[r].providerCalls = 0
            /\ reqs[r].costCalls = 0
            /\ OfTypes(getByQueryId(r), {"route_decision"}) = {}
            /\ OfTypes(reqs[r].generatedArtifacts, {"route_decision"}) = {}
            /\ reqs[r].response.cost = 0
            /\ reqs[r].response.tokens.input = 0

\* A request served from the cache while the daily budget is used up, the
\* entry it was served with having a cost.
C16_Witness ==
    \E r \in 1..MaxRequests :
        /\ reqs[r].cacheHit
        /\ reqs[r].pc = "done"
        /\ reqs[r].response.tokens.output = 2
        /\ getStatus("daily").percentUsed >= 10000

\* The ids of the artifacts the store holds.
HeldIds == {artifacts[i].id : i \in 1..Len(artifacts)}

\* C17: the artifact store never holds more artifacts than its capacity,
\* and the artifacts it has removed are the oldest: it holds exactly the
\* newest artifacts recorded, as many as the capacity allows.
C17_CapacityAndFifo ==
    /\ Len(artifacts) <= ArtifactCapacity
    /\ Cardinality(HeldIds) = Len(artifacts)
    /\ Len(artifacts) = (IF nartifacts < ArtifactCapacity THEN nartifacts
                         ELSE ArtifactCapacity)
    /\ HeldIds = (nartifacts - Len(artifacts) + 1)..nartifacts

\* More artifacts were recorded than the store can hold.
C17_Witness ==
    /\ nartifacts > ArtifactCapacity
    /\ Len(artifacts) = ArtifactCapacity

\* C19: the artifact of a cascade step whose run succeeded is
\* cascade_escalation exactly when the score was below the threshold and
\* the executor moved on to a next step, and cascade_success when the
\* score met the threshold, also when later steps remain.  The executor
\* moves on exactly when the request is left in its cascade.
C19_StepArtifactType ==
    [][\A r \in 1..MaxRequests :
          (reqs[r].pc = "cascade"
           /\ Len(reqs'[r].generatedArtifacts) = Len(reqs[r].generatedArtifacts) + 1)
          => LET a == reqs'[r].generatedArtifacts[Len(reqs'[r].generatedArtifacts)]
                 below == a.qualityScore < a.qualityThreshold
             IN  /\ (a.type = "cascade_escalation")
                       <=> (below /\ reqs'[r].pc = "cascade")
                 /\ ~below => a.type = "cascade_success"]_vars

\* C18: a decision routeQuery returns while emergency mode is active never
\* names a provider for which isProviderDisabled is true.
C18_NoDisabledProvider ==
    routed.decision.emergencyMode => ~routed.providerDisabled

\* The same under the disableProviders list of the default configuration.
C18_DefaultList ==
    (routed.decision.emergencyMode
     /\ config.emergencyMode.disableProviders = {"anthropic"})
    => ~routed.providerDisabled

\* C20: for every adapter and every model it serves, the cost the cost
\* calculator computes from the tokens of a response is within 0.01% of
\* the cost field the adapter put in the response.
C20_CostBookMatchesAdapter ==
    LET diff == IF priced.actualCost >= priced.cost
                THEN priced.actualCost - priced.cost
                ELSE priced.cost - priced.actualCost
    IN  diff * 10000 <= priced.cost

\* The same for the models other than gpt-4o.
C20_ExceptGpt4o ==
    priced.model # "gpt-4o" => priced.actualCost = priced.cost

\* C21: the estimatedCost of estimateCost equals the sum of the three
\* parts of its breakdown; for a model that is not registered the call
\* returns without error and the four values are 0.
C21_EstimateIsSumOfBreakdown ==
    /\ estimate.estimatedCost
          = estimate.breakdown.inputCost + estimate.breakdown.outputCost
            + estimate.breakdown.perRequestCost
    /\ getModelCostProfile(estimate.provider, estimate.model) = NoProfile
          => /\ ~estimate.raised
             /\ estimate.estimatedCost = 0
             /\ estimate.breakdown.inputCost = 0
             /\ estimate.breakdown.outputCost = 0
             /\ estimate.breakdown.perRequestCost = 0

\* An estimate for a registered model with tokens and a per-request fee.
C21_Witness ==
    /\ estimate.model = "sonar-pro"
    /\ estimate.breakdown.inputCost > 0
    /\ estimate.breakdown.outputCost > 0
    /\ estimate.breakdown.perRequestCost > 0

\* C22: one chat call invokes the adapter at most 3 times, makes no
\* further attempt once one has succeeded, and when every attempt has
\* failed raises a ProviderError that carries the provider name and the
\* model.
C22_RetryBound ==
    /\ [](\A c \in 1..MaxChats :
            /\ chats.calls[c].invocations <= 3
            /\ chats.calls[c].result = "threw"
                  => /\ chats.calls[c].invocations = 3
                     /\ chats.calls[c].error.name = "ProviderError"
                     /\ chats.calls[c].error.provider = chats.name
                     /\ chats.calls[c].error.model = chats.calls[c].model)
    /\ [][\A c \in 1..MaxChats :
            chats.calls[c].result = "returned"
            => chats'.calls[c].invocations = chats.calls[c].invocations]_vars

\* A chat call that failed three times with an Error of fetch and threw
\* the wrapped error, next to one that succeeded on its second attempt.
C22_Witness ==
    \E c, d \in 1..MaxChats :
        /\ chats.calls[c].result = "threw"
        /\ chats.calls[c].last.name = "Error"
        /\ chats.calls[d].result = "returned"
        /\ chats.calls[d].invocations = 2


\* C23: a request whose provider calls fail terminally (the direct call
\* after its retries, or every step of the cascade) is answered with HTTP
\* status 502.
C23_TerminalFailureIs502 ==
    (api.req.pc = "done" /\ api.req.terminal # "") => api.req.status = 502

\* A cascade whose every step failed is answered with 500, a direct call
\* with the status of the error of the adapter.
C23_StatusOfTerminalFailure ==
    (api.req.pc = "done" /\ api.req.terminal # "")
        => /\ api.req.terminal = "cascade" => api.req.status = 500
           /\ api.req.terminal = "direct" => api.req.status \in {500, 502}

\* C24: for every request that ends in a terminal error, an error
\* analytics event and an error metric are recorded before the error is
\* surfaced to the caller; processQuery is the caller's only way in.
C24_ErrorsAreRecorded ==
    \A r \in 1..MaxRequests :
        reqs[r].result = "threw"
            => \E k \in 1..Len(reqs[r].analytics) : reqs[r].analytics[k] = "error"

\* The handler of POST /api/query does so for the errors that reach its
\* catch block.
C24_RouteRecordsErrors ==
    (api.req.pc = "done" /\ api.req.status >= 500)
        => \E i, j, k \in 1..Len(api.req.effects) :
              /\ api.req.effects[i] = "analytics.recordError"
              /\ api.req.effects[j] = "metrics.recordError"
              /\ api.req.effects[k] = "response"
              /\ i < k /\ j < k

\* C25: POST /api/query answers 429 and calls no provider whenever the
\* daily percentUsed is at least 100 and the query is not served from the
\* cache.
C25_OverBudgetIs429 ==
    (api.req.pc = "done" /\ api.req.percentUsed >= 10000 /\ ~api.req.cacheHit)
        => (api.req.status = 429 /\ api.req.providerCalls = 0)

\* What the handler does instead: it never answers 429.
C25_Never429 == api.req.status # 429


\* The channels the Map holds for client id, none when it is not there.
ChannelsOf(h, id) ==
    IF MapIndex(h.clients, id) = 0 THEN {}
    ELSE h.clients[MapIndex(h.clients, id)].channels

\* C26: a broadcast on a channel is sent to exactly the connected, open
\* clients whose current subscription set contains the channel; the set
\* of a client is all channels on connect and changes only through its
\* own subscribe and unsubscribe messages.
C26_BroadcastToSubscribers ==
    /\ [](hub.last.op = "broadcast"
            => hub.last.recipients =
                 { id \in 1..Len(hub.sockets) :
                     /\ hub.sockets[id].readyState = "OPEN"
                     /\ hub.last.channel \in hub.sockets[id].asked })
    /\ [][\A id \in 1..Len(hub'.sockets) :
            /\ id > Len(hub.sockets) => ChannelsOf(hub', id) = Channels
            /\ (id <= Len(hub.sockets) /\ MapIndex(hub'.clients, id) # 0
                    /\ ChannelsOf(hub', id) # ChannelsOf(hub, id))
                 => /\ hub'.last.op \in {"subscribe", "unsubscribe"}
                    /\ hub'.last.id = id]_vars

C26_Witness ==
    /\ hub.last.op = "broadcast"
    /\ hub.last.recipients = {2}
    /\ hub.sockets[1].readyState = "OPEN"
    /\ hub.last.channel \notin hub.sockets[1].asked

\* C27: a connected client that does not answer a ping with a pong is
\* dropped by a later heartbeat: no client of the Map is pinged again
\* while it has a ping unanswered.
C27_SilentClientIsDropped ==
    \A k \in 1..Len(hub.clients) : hub.sockets[hub.clients[k].id].unanswered <= 1

\* What the heartbeat does instead: a client whose socket stays OPEN
\* stays in the Map, whatever it has answered.
C27_OpenClientStays ==
    [][\A id \in 1..Len(hub.sockets) :
          (MapIndex(hub.clients, id) # 0 /\ hub'.sockets[id].readyState = "OPEN")
              => MapIndex(hub'.clients, id) # 0]_vars

\* C28: from one source IP at most 10 connections are accepted within any
\* one-minute window, and once the limit is exhausted every further
\* attempt from that IP is refused for 5 minutes.
C28_TenPerMinuteThenBlocked ==
    /\ hub.window.prev + hub.window.cur <= points
    /\ (hub.last.op = "upgrade" /\ hub.last.exhaustedAt # Null
            /\ hub.last.time < hub.last.exhaustedAt + blockDuration)
          => hub.last.outcome # "101"

\* What the limiter of the secured hub gives: no more than 10 points in
\* the window that began with the first of them, and no handshake while
\* the key holds more.
C28_PointsPerLimiterWindow ==
    (hub.secured /\ hub.last.op = "upgrade" /\ hub.last.outcome = "101")
        => \E ip \in IPs : /\ hub.limiter[ip].value \in 1..points
                            /\ hub.limiter[ip].expiresAt > hub.last.time


\* The run of step outcomes[k].index met the threshold of its step.
RunMetThreshold(k) ==
    outcomes[k].ok /\ outcomes[k].quality >= chain[outcomes[k].index + 1].qualityThreshold

\* C29: executeCascade calls run on the chain steps in chain order, on
\* each step at most once; it goes on to the next step after a step whose
\* run raises, and calls run on no step after the first step whose score
\* meets its threshold.
C29_RunsInOrderUntilThreshold ==
    /\ Len(outcomes) <= Len(chain)
    /\ \A k \in 1..Len(outcomes) : outcomes[k].index = k - 1
    /\ \A k \in 1..(Len(outcomes) - 1) : ~RunMetThreshold(k)
    /\ cs.status # "running"
          => (Len(outcomes) = Len(chain) \/ RunMetThreshold(Len(outcomes)))

C29_Witness ==
    /\ Len(chain) = 3
    /\ Len(outcomes) = 2
    /\ ~outcomes[1].ok
    /\ RunMetThreshold(2)
    /\ cs.status = "returned"


\* C30: processQuery calls recordCost exactly once for a request that
\* returns a response that is not cached, and never for a request that
\* ends as a cache hit, as a budget rejection, or with all its provider
\* calls failed.
C30_CostRecordedOncePerResponse ==
    \A r \in 1..MaxRequests :
        /\ (reqs[r].result = "returned" /\ ~reqs[r].cacheHit) => reqs[r].costCalls = 1
        /\ reqs[r].cacheHit => reqs[r].costCalls = 0
        /\ reqs[r].result = "threw" => reqs[r].costCalls = 0
        /\ reqs[r].costCalls <= 1

C30_Witness ==
    \E r \in 1..MaxRequests :
        /\ reqs[r].result = "returned"
        /\ ~reqs[r].cacheHit
        /\ reqs[r].providerCalls = 2
        /\ reqs[r].costCalls = 1
        /\ Len(recorded) = 1


\* C31: between two resets of the fired-alert set, each configured alert
\* threshold performs its action at most once, however many recordCost
\* calls leave the daily percentUsed at or above its percentage.
C31_EachThresholdFiresOnce ==
    \A i, j \in 1..Len(fireCalls) : fireCalls[i] = fireCalls[j] => i = j

\* Two costs of the day recorded, the first of them above every
\* percentage, and every threshold has fired once.
C31_Witness ==
    /\ Len(costs) = 2
    /\ costs[1].totalCost = 18999
    /\ InPeriod(costs[1], getPeriodBounds("daily", now))
    /\ InPeriod(costs[2], getPeriodBounds("daily", now))
    /\ config.dailyLimit = 20000
    /\ Len(fireCalls) = Len(config.alertThresholds)
    /\ lastOp = OtherOp


\* The places of the adapter whose key the step takes out of it.
Gone == { i \in 1..Len(store) : CellIndex(store', store[i].key) = 0 }

\* The step in which the eviction of store call p is over: evictOldest found
\* nothing to delete, or its adapter.delete has taken effect.
EvictionStep(p) ==
    /\ ops[p].kind = "store"
    /\ \/ ops[p].pc = "evicting" /\ ops'[p].pc = "setting"
       \/ IsMemory /\ ops[p].pc = "evicting" /\ ops'[p].pc = "deleting"
       \/ ~IsMemory /\ ops[p].pc = "deleting" /\ ops'[p].pc = "setting"

\* C32: a store that found size >= maxEntries evicts exactly one entry, one
\* that no stored entry precedes in the order (hitCount, createdAt); a store
\* that found size < maxEntries evicts nothing.
C32_EvictsOneMinimum ==
    [][\A p \in 1..MaxOps :
        /\ EvictionStep(p) =>
              \E i \in 1..Len(store) :
                  /\ Gone = {i}
                  /\ \A j \in 1..Len(store) :
                        ~EvictBefore(Data(store[j]), Data(store[i]))
        /\ (/\ ops[p].kind = "store" /\ ops[p].pc = "sized"
            /\ ~AtCapacity(ops[p].size) /\ ops'[p].pc # "sized") => Gone = {}]_vars

\* A store that found the adapter full ends its eviction with all the
\* entries it found still there.
C32_EvictedNothing ==
    [][\A p \in 1..MaxOps : EvictionStep(p) => Gone # {}]_vars


\* The fields enrichWithResponse may write.
EnrichedFields == {"actualCost", "response", "qualityReport", "confidence"}

\* C33: enrichWithResponse(id, ...) changes only the actualCost, response,
\* qualityReport and confidence of the one stored artifact with that id:
\* the other artifacts, the other fields and the order of the buffer stay,
\* and nothing changes when no stored artifact has the id.
C33_EnrichFrame ==
    [][\A id \in 1..(MaxRecorded + 1), response \in ChatResponses,
          report \in QualityReports :
          ArtifactEnrich(id, response, report) =>
              /\ Len(artifacts') = Len(artifacts)
              /\ nartifacts' = nartifacts
              /\ \A i \in 1..Len(artifacts) :
                    /\ artifacts[i].id # id => artifacts'[i] = artifacts[i]
                    /\ \A f \in DOMAIN artifacts[i] \ EnrichedFields :
                          artifacts'[i][f] = artifacts[i][f]
              /\ Cardinality({i \in 1..Len(artifacts) : artifacts[i].id = id}) <= 1]_vars

\* The buffer holds an artifact that was enriched, with a report, behind a
\* newer one that was not.
C33_Witness ==
    /\ Len(artifacts) = 2
    /\ artifacts[2].actualCost = 20000
    /\ artifacts[2].response.contentLength = 2
    /\ artifacts[2].confidence = 95
    /\ artifacts[1].actualCost = Null
    /\ artifacts[1].response = NoEnrichment
    /\ nartifacts = MaxRecorded


\* The costs of the provider calls of a request that succeeded, summed.
RECURSIVE SumAnswered(_)
SumAnswered(calls) ==
    IF calls = <<>> THEN 0
    ELSE (IF Head(calls).ok THEN Head(calls).cost ELSE 0) + SumAnswered(Tail(calls))

\* The requests that returned the response of a provider.
Answered == { r \in 1..MaxRequests : reqs[r].result = "returned" /\ ~reqs[r].cacheHit }

ViaCascade(r) ==
    reqs[r].routing.strategy = "cascade" /\ reqs[r].routing.cascadeChain # <<>>

\* The provider call whose response the request returned.
ReturnedCall(r) ==
    IF ViaCascade(r) THEN reqs[r].calls[reqs[r].cascade.response + 1]
    ELSE reqs[r].calls[1]

\* C34: the cost recorded in the budget tracker for a completed cascade
\* request is the sum of the costs of all its steps whose provider call
\* succeeded, the escalated-past steps included.
C34_RecordedIsSumOfSteps ==
    \A r \in Answered :
        ViaCascade(r) => reqs[r].recordedCost.totalCost = SumAnswered(reqs[r].calls)

\* C35: the ActualCost recorded for a request names the provider and the
\* model that produced the returned response and is priced at the rates of
\* that model, also when a cascade returned a later step.
C35_RecordedNamesAnsweringModel ==
    \A r \in Answered :
        reqs[r].recordedCost = ActualCostOf_answering(reqs[r].routing, ReturnedCall(r))

\* C36: no provider call is started on a provider that isProviderDisabled
\* reports as disabled, whenever the request of the call was routed.
C36_NoCallOnDisabledProvider ==
    \A r \in 1..MaxRequests :
        \A k \in 1..Len(reqs[r].calls) : ~reqs[r].calls[k].isDisabled


\* The largest cost a single request has recorded.
LargestRequestCost ==
    LET recs == { reqs[r].recordedCost.totalCost : r \in RequestIds } \ {Null}
    IN  IF recs = {} THEN 0 ELSE CHOOSE c \in recs : \A d \in recs : d <= c

\* C37: under any interleaving of concurrent processQuery calls the daily
\* spent never exceeds the daily limit by more than the cost of a single
\* request.
C37_OvershootWithinOneRequest ==
    getStatus("daily").spent <= config.dailyLimit + LargestRequestCost


\* C40: a store of a query whose key the full cache already holds replaces
\* that entry and removes no other entry.
C40_RestoreRemovesNoOther ==
    [][\A p \in 1..MaxOps :
        (EvictionStep(p) /\ CellIndex(store, ops[p].hash) # 0)
            => \A i \in Gone : store[i].key = ops[p].hash]_vars


\* C38: once clear has returned, the adapter holds no entry that was stored
\* before that clear began.
C38_ClearedStaysCleared ==
    \A p \in 1..MaxOps :
        ops[p].kind = "cleared" =>
            \A i \in 1..Len(store) : store[i].eid \notin ops[p].before

\* The step in which an adapter.delete of pruneExpired call p takes effect.
PruneDeleteStep(p) ==
    /\ ops[p].kind = "prune"
    /\ IF IsMemory
       THEN ops[p].pc \in {"listing", "deleting"} /\ ops'[p].pc = "deleting"
       ELSE ops[p].pc = "deleting" /\ ops'[p] # ops[p]

\* C39: pruneExpired deletes only entries that are expired at the moment
\* they are deleted; an entry stored again under the key with a fresh
\* expiresAt while pruneExpired runs stays.
C39_PruneDeletesOnlyExpired ==
    [][\A p \in 1..MaxOps :
        PruneDeleteStep(p) => \A i \in Gone : IsExpired(Data(store[i]), now)]_vars

=============================================================================
